---- MODULE Spec2Model ----
(***************************************************************************)
(* Model of the OAuth 2.1 resource-server layer of the Odoo MCP server:    *)
(* the process-wide token cache, TokenValidator.validate /                 *)
(* validate_async, extract_user_context, the scope gate and the part of    *)
(* the HTTP request path (oauth_middleware, handle_tools_call) that works  *)
(* on the validated claims.                                                *)
(*                                                                         *)
(* Time is time.time() in seconds.  A bearer token is the sequence of its  *)
(* dot-separated segments; a structured token is <<header, payload,        *)
(* signature>>.  A claims map is a function whose domain is the set of     *)
(* claims present.  Python dicts are objects: the heap maps an object id   *)
(* to the dict's content, and the cache and the user context hold ids.  An *)
(* id is <<token hash, k>>: the k-th live dict validation made for a token.*)
(***************************************************************************)
EXTENDS Integers, Sequences, FiniteSets, TLC

VARIABLES
    now,          \* time.time()
    validator,    \* the TokenValidator of the process (resource_server._validator)
    tokenCache,   \* _token_cache: token hash -> <<claims object, expiry>> (a partial function)
    heap,         \* the live claims dicts: object id -> content
    validated,    \* object id -> the content the dict had when validation created it
    jwksLoaded,   \* TokenValidator.jwks is non-empty
    jwksCacheTime,\* TokenValidator._jwks_cache_time
    pyjwk,        \* _jwks_clients[jwks_uri]: "absent", "nokeys" or "keys"
    pc,           \* per request: where the request is
    tok,          \* per request: the bearer token presented
    fetchNow,     \* per request: the local `now` of fetch_jwks
    res,          \* per request: how the validation call ended
    user,         \* per request: request.state.user
    tool,         \* per request: the tool named by tools/call
    resp,         \* per request: the HTTP status answered, 0 while there is none
    settings,     \* Settings: oauth_dev_mode and yolo_mode
    http,         \* per request: the path and the Authorization scheme received
    www,          \* per request: the WWW-Authenticate header answered, "" for none
    call,         \* per request: the scope gate's outcome, the ERP calls issued so far
                  \* and the locals and outcome of get_employee_for_user
    employeeCache,\* _employee_cache: lowercased email -> [employee_info, expiry]
    resolved,     \* <<user_email, odoo_employee_id>> -> the record the backend lookups
                  \* last found for them, and when
    required,     \* scope gate: the required scopes of the call
    granted,      \* scope gate: the scopes the user holds
    access,       \* scope gate: what check_scope_access / require_scopes answered
    ctxIn,        \* user context: the claims handed to extract_user_context
    ctxOut,       \* user context: what extract_user_context returned, <<>> before the call
    odooClient,   \* OdooClient: _uid (0 for None or False), the holder of _uid_lock
                  \* (0 for none) and the handshake RPCs issued and failed so far
    authCalls,    \* per caller of OdooClient.authenticate(): where it is and how it ended
    body,         \* per request: the metadata object serialized and the dict answered
    erp,          \* the Odoo database the tools write to: the hr.leave records, and
                  \* the unlink calls that reached it
    run           \* per request: the employee tool execute_employee_tool is running

vars == <<now, validator, tokenCache, heap, validated, jwksLoaded, jwksCacheTime,
          pyjwk, pc, tok, fetchNow, res, user, tool, resp, settings, http, www, call,
          employeeCache, resolved, required, granted, access, ctxIn, ctxOut,
          odooClient, authCalls, body, erp, run>>

(* The variables of the other parts of the program, which the validator    *)
(* and request actions leave alone.                                        *)
erpVars == <<erp, run>>
otherVars == <<required, granted, access, ctxIn, ctxOut, settings, odooClient, authCalls,
               erpVars>>
gateVars == <<otherVars, body>>

(* The variables of employee resolution and of the tools/call handler. *)
toolVars == <<call, employeeCache, resolved>>

----------------------------------------------------------------------------
(* Bounds of the model *)

MaxReqs == 2
MaxObjs == 2
MaxElapsed == 300
MaxScopes == 2

(* Program constants *)

_TOKEN_CACHE_TTL == 300
_jwks_cache_ttl == 3600
StartTime == 1000
TickStep == 150

GOOGLE == "https://accounts.google.com"
CUSTOM == "https://auth.keboola.com"
OTHER_ISS == "https://evil.example.com"
CLIENT_ID == "client-id.apps.googleusercontent.com"
RESOURCE == "https://odoo-mcp.keboola.com"
OTHER_AUD == "https://other.example.com"

Reqs == 1..MaxReqs
NoRef == <<>>
NoUser == [none |-> TRUE]

(* {} *)
EmptyDict == [x \in {} |-> 0]

(* dict.get(k, default) *)
Get(m, k, d) == IF k \in DOMAIN m THEN m[k] ELSE d

(* dict with key k set to v *)
DictSet(m, k, v) == [x \in (DOMAIN m) \cup {k} |-> IF x = k THEN v ELSE m[x]]

----------------------------------------------------------------------------
(* Bearer tokens.  The header of a structured token names the algorithm and *)
(* the key id; the signature segment names what produced it: the private    *)
(* key of a published key, an HMAC keyed with a published (public) key, or  *)
(* nothing of value.                                                        *)

Hdr(alg, kid) == [wellformed |-> TRUE, alg |-> alg, kid |-> kid]
GarbageHdr == [wellformed |-> FALSE, alg |-> "", kid |-> ""]
SignedBy(key) == [by |-> "private", key |-> key]
HmacWith(key) == [by |-> "hmac", key |-> key]
NoSig == [by |-> "nothing", key |-> ""]

(* The scope claim is a string of words separated by spaces: a sequence    *)
(* whose elements are words or the separator " ".                          *)
GBase == [iss |-> GOOGLE, aud |-> CLIENT_ID, exp |-> 5000, sub |-> "g-1",
          email |-> "alice@keboola.com", email_verified |-> TRUE, azp |-> CLIENT_ID]
CBase == [iss |-> CUSTOM, aud |-> RESOURCE, exp |-> 5000, sub |-> "u-1",
          scope |-> <<"openid", " ", "odoo.read">>]

Without(m, k) == [x \in (DOMAIN m) \ {k} |-> m[x]]

GJwt(payload) == <<Hdr("RS256", "g1"), payload, SignedBy("google-key")>>
CJwt(payload) == <<Hdr("RS256", "c1"), payload, SignedBy("custom-key")>>

GoogleJwts ==
    { GJwt(GBase),
      GJwt(Without([GBase EXCEPT !.exp = 1150], "sub")),
      GJwt([GBase EXCEPT !.azp = "other-client"]),
      GJwt([GBase EXCEPT !.exp = 900]),
      GJwt([GBase EXCEPT !.iss = OTHER_ISS]),
      GJwt([GBase EXCEPT !.aud = OTHER_AUD]),
      GJwt(Without(GBase, "email")),
      GJwt(Without(GBase, "exp")),
      <<Hdr("none", "g1"), GBase, NoSig>>,
      <<Hdr("HS256", "g1"), GBase, HmacWith("google-key")>>,
      <<Hdr("RS384", "g1"), GBase, SignedBy("google-key")>>,
      <<Hdr("RS256", "g1"), GBase, SignedBy("attacker-key")>>,
      <<Hdr("RS256", "unknown"), GBase, SignedBy("attacker-key")>>,
      <<GarbageHdr, GBase, NoSig>> }

CustomJwts ==
    { CJwt(CBase),
      CJwt(Without([CBase EXCEPT !.exp = 1150], "sub")),
      <<Hdr("ES256", "c1"),
        DictSet(DictSet(CBase, "email", "bob@example.com"), "odoo_employee_id", 7),
        SignedBy("custom-key")>>,
      CJwt([CBase EXCEPT !.exp = 1000]),
      CJwt([CBase EXCEPT !.iss = OTHER_ISS]),
      CJwt([CBase EXCEPT !.aud = OTHER_AUD]),
      CJwt(Without(CBase, "aud")),
      CJwt(Without(CBase, "iss")),
      <<Hdr("none", "c1"), CBase, NoSig>>,
      <<Hdr("HS256", "c1"), CBase, HmacWith("custom-key")>>,
      <<Hdr("HS512", "c1"), CBase, HmacWith("custom-key")>>,
      <<Hdr("RS256", "c1"), CBase, SignedBy("attacker-key")>> }

(* Tokens that are not three segments: one segment (an opaque access       *)
(* token) or two.                                                          *)
OpaqueTokens ==
    { <<"ya29.valid">>, <<"ya29.short">>, <<"ya29.azp">>,
      <<"ya29.revoked">>, <<"ya29.otheraud">>, <<"ya29.expired">> }
TwoSegmentTokens == { <<"abc", "def">> }

Tokens == GoogleJwts \cup CustomJwts \cup OpaqueTokens \cup TwoSegmentTokens

(* The tokens presented to a validator: every token of its own issuer's    *)
(* shape, the valid token of the other issuer, and the tokens that are not *)
(* three segments.                                                         *)
TokensFor(v) ==
    IF v.is_google
    THEN GoogleJwts \cup OpaqueTokens \cup TwoSegmentTokens \cup {CJwt(CBase)}
    ELSE CustomJwts \cup {<<"ya29.valid">>, <<"ya29.revoked">>} \cup TwoSegmentTokens
         \cup {GJwt(GBase)}

(* A few tokens for the runs in which time passes: valid ones, long- and   *)
(* short-lived, structured and opaque, and one that decoding rejects.      *)
RaceTokensFor(v) ==
    IF v.is_google
    THEN {GJwt(GBase), <<"ya29.short">>, GJwt([GBase EXCEPT !.azp = "other-client"])}
    ELSE {CJwt(CBase), CJwt(Without([CBase EXCEPT !.exp = 1150], "sub")),
          CJwt([CBase EXCEPT !.aud = OTHER_AUD])}

(* What https://www.googleapis.com/oauth2/v3/tokeninfo answers for an      *)
(* access token at time t: the status code and the JSON body.  expires_in  *)
(* is the time left until the token's deadline.                            *)
OpaqueDeadline(token) ==
    CASE token = <<"ya29.short">>   -> 1100
      [] token = <<"ya29.expired">> -> 1000
      [] OTHER                      -> 4500
InfoBase(token, t) ==
    [aud |-> CLIENT_ID, azp |-> CLIENT_ID, sub |-> "g-1",
     email |-> "alice@keboola.com", email_verified |-> "true",
     expires_in |-> OpaqueDeadline(token) - t, scope |-> <<"openid", " ", "email">>]
TokenInfo(token, t) ==
    CASE token \in {<<"ya29.valid">>, <<"ya29.short">>, <<"ya29.expired">>}
             -> [status |-> 200, body |-> InfoBase(token, t)]
      [] token = <<"ya29.azp">>
             -> [status |-> 200,
                 body |-> Without(Without(Without(InfoBase(token, t), "aud"), "sub"),
                                  "expires_in")]
      [] token = <<"ya29.otheraud">>
             -> [status |-> 200, body |-> [InfoBase(token, t) EXCEPT !.aud = OTHER_AUD]]
      [] OTHER
             -> [status |-> 400, body |-> [error_description |-> "Invalid Value"]]

(* The signing keys published at a key-distribution endpoint: kid -> key.  *)
JwksAt(uri) ==
    CASE uri = "https://www.googleapis.com/oauth2/v3/certs" -> [g1 |-> "google-key"]
      [] uri = "https://auth.keboola.com/.well-known/jwks.json" -> [c1 |-> "custom-key"]
      [] OTHER -> [nokey |-> "nokey"]

----------------------------------------------------------------------------
(* Exceptions.  An exception is named by its class; the class hierarchy is *)
(* the set of classes an except clause for the base catches.               *)

TokenValidationErrors ==
    {"TokenValidationError", "TokenExpiredError", "InvalidTokenError",
     "InvalidIssuerError", "InvalidAudienceError"}

(* jwt.InvalidTokenError and its subclasses *)
JwtInvalidTokenErrors ==
    {"jwt.InvalidTokenError", "jwt.DecodeError", "jwt.InvalidSignatureError",
     "jwt.ExpiredSignatureError", "jwt.InvalidAudienceError", "jwt.InvalidIssuerError",
     "jwt.InvalidAlgorithmError", "jwt.MissingRequiredClaimError"}

None == "<None>"
Ok(claims, net) == [ok |-> TRUE, exc |-> "", claims |-> claims, net |-> net]
Raise(exc, net) == [ok |-> FALSE, exc |-> exc, claims |-> <<>>, net |-> net]

(* _get_token_hash: the truncated SHA-256 of the token; distinct tokens of *)
(* the model have distinct digests.                                        *)
_get_token_hash(token) == <<"sha256", token>>

(* TokenValidator(issuer, audience, authorized_party=...) with             *)
(* __post_init__ deriving jwks_uri and is_google.                          *)
TokenValidator(issuer, audience, authorized_party) ==
    [issuer |-> issuer, audience |-> audience, authorized_party |-> authorized_party,
     is_google |-> (issuer = GOOGLE),
     jwks_uri |-> IF issuer = GOOGLE
                  THEN "https://www.googleapis.com/oauth2/v3/certs"
                  ELSE "https://auth.keboola.com/.well-known/jwks.json"]

(* Signature verification of the JOSE algorithm families: an RSA/ECDSA     *)
(* signature verifies under the key whose private half made it, an HMAC    *)
(* verifies when it was keyed with the very bytes handed to the verifier,  *)
(* and "none" has nothing to verify.                                       *)
SigVerifies(alg, key, sig) ==
    CASE alg \in {"RS256", "RS384", "RS512", "ES256", "ES384", "ES512"}
             -> sig.by = "private" /\ sig.key = key
      [] alg \in {"HS256", "HS384", "HS512"}
             -> sig.by = "hmac" /\ sig.key = key
      [] alg = "none" -> TRUE
      [] OTHER -> FALSE

(* jwt.decode(token, key, algorithms=..., issuer=..., audience=...,        *)
(* options={"require": ..., verify_exp, verify_iss, verify_aud}) at time t *)
JwtDecode(token, key, algorithms, issuer, audience, require, t) ==
    LET hdr == token[1]
        payload == token[2]
    IN  IF ~hdr.wellformed THEN Raise("jwt.DecodeError", 0)
        ELSE IF hdr.alg \notin algorithms THEN Raise("jwt.InvalidAlgorithmError", 0)
        ELSE IF ~SigVerifies(hdr.alg, key, token[3]) THEN Raise("jwt.InvalidSignatureError", 0)
        ELSE IF \E c \in require : c \notin DOMAIN payload
             THEN Raise("jwt.MissingRequiredClaimError", 0)
        ELSE IF "exp" \in DOMAIN payload /\ payload.exp <= t
             THEN Raise("jwt.ExpiredSignatureError", 0)
        ELSE IF "iss" \notin DOMAIN payload THEN Raise("jwt.MissingRequiredClaimError", 0)
        ELSE IF payload.iss # issuer THEN Raise("jwt.InvalidIssuerError", 0)
        ELSE IF "aud" \notin DOMAIN payload THEN Raise("jwt.MissingRequiredClaimError", 0)
        ELSE IF payload.aud # audience THEN Raise("jwt.InvalidAudienceError", 0)
        ELSE Ok(payload, 0)

(* PyJWKClient.get_signing_key_from_jwt: parse the header, take the key    *)
(* set from the client's cache or fetch it (one network call; a second,    *)
(* refreshing one when the kid is not in a cached set), look up the kid.   *)
(* keys is the client's state ("absent", "nokeys", "keys"), netUp whether  *)
(* the endpoint answers.  The result carries the key and the client state. *)
GetSigningKey(v, token, keys, netUp) ==
    LET hdr == token[1]
        jwks == JwksAt(v.jwks_uri)
        had == (keys = "keys")
        known == hdr.kid \in DOMAIN jwks
    IN  IF ~hdr.wellformed
        THEN [ok |-> FALSE, exc |-> "jwt.DecodeError", key |-> "", net |-> 0,
              keys |-> IF had THEN "keys" ELSE "nokeys"]
        ELSE IF ~had /\ ~netUp
        THEN [ok |-> FALSE, exc |-> "jwt.PyJWKClientConnectionError", key |-> "", net |-> 1,
              keys |-> "nokeys"]
        ELSE IF known
        THEN [ok |-> TRUE, exc |-> "", key |-> jwks[hdr.kid], net |-> IF had THEN 0 ELSE 1,
              keys |-> "keys"]
        ELSE IF had /\ ~netUp
        THEN [ok |-> FALSE, exc |-> "jwt.PyJWKClientConnectionError", key |-> "", net |-> 1,
              keys |-> "keys"]
        ELSE [ok |-> FALSE, exc |-> "jwt.PyJWKClientError", key |-> "", net |-> 1,
              keys |-> "keys"]

----------------------------------------------------------------------------
(* TokenValidator *)

Min(a, b) == IF a <= b THEN a ELSE b

(* A variant that trusts the exp claim alone. *)
CacheExpiryFromExp(claims, t) ==
    IF "exp" \in DOMAIN claims /\ claims.exp # 0
    THEN claims.exp
    ELSE t + _TOKEN_CACHE_TTL

(* The expiry _cache_claims stores with the claims at time t. *)
CacheExpiry(claims, t) ==
    IF "exp" \in DOMAIN claims /\ claims.exp # 0
    THEN Min(claims.exp, t + _TOKEN_CACHE_TTL)
    ELSE t + _TOKEN_CACHE_TTL

(* The body both tokeninfo validators run on the response: status check,   *)
(* audience check, expires_in check, normalisation to the JWT claim names. *)
TokeninfoClaims(v, response) ==
    LET claims == response.body
        token_aud == IF Get(claims, "aud", "") # "" THEN claims.aud ELSE Get(claims, "azp", None)
    IN  IF response.status # 200 THEN Raise("InvalidTokenError", 1)
        ELSE IF token_aud # v.audience THEN Raise("InvalidAudienceError", 1)
        ELSE IF "expires_in" \in DOMAIN claims /\ claims.expires_in <= 0
             THEN Raise("TokenExpiredError", 1)
        ELSE Ok([sub |-> Get(claims, "sub", None),
                 email |-> Get(claims, "email", None),
                 email_verified |-> (Get(claims, "email_verified", None) = "true"),
                 aud |-> token_aud,
                 iss |-> "https://accounts.google.com",
                 scope |-> Get(claims, "scope", <<>>)], 1)

(* _validate_google_access_token: the blocking tokeninfo call; a transport *)
(* failure (httpx.RequestError) becomes TokenValidationError.              *)
_validate_google_access_token(v, token, t, netUp) ==
    IF ~netUp THEN Raise("TokenValidationError", 1)
    ELSE TokeninfoClaims(v, TokenInfo(token, t))

(* _validate_google_access_token_async, from the point where the awaited  *)
(* tokeninfo call has answered or failed.                                  *)
_validate_google_access_token_async(v, token, t, netUp) ==
    IF ~netUp THEN Raise("TokenValidationError", 1)
    ELSE TokeninfoClaims(v, TokenInfo(token, t))

(* A variant of the allow-list that lets the HMAC family in. *)
StandardAlgorithmsWithHmac ==
    {"RS256", "RS384", "RS512", "ES256", "ES384", "ES512", "HS256", "HS384", "HS512"}

(* The algorithms each branch of validate hands to jwt.decode. *)
GoogleAlgorithms == {"RS256"}
StandardAlgorithms == {"RS256", "RS384", "RS512", "ES256", "ES384", "ES512"}

(* The except chain that closes validate's try block. *)
MapException(exc) ==
    CASE exc = "jwt.ExpiredSignatureError" -> "TokenExpiredError"
      [] exc = "jwt.InvalidIssuerError"    -> "InvalidIssuerError"
      [] exc = "jwt.InvalidAudienceError"  -> "InvalidAudienceError"
      [] exc \in JwtInvalidTokenErrors \ {"jwt.ExpiredSignatureError",
                  "jwt.InvalidIssuerError", "jwt.InvalidAudienceError"}
                                           -> "InvalidTokenError"
      [] OTHER                             -> "TokenValidationError"

(* The authorized-party check of the Google branch: TRUE when it raises.   *)
AzpRejected(v, claims) ==
    /\ v.authorized_party # ""
    /\ Get(claims, "azp", "") # ""
    /\ claims.azp # v.authorized_party

(* The try block of validate for a three-segment token: signing key,       *)
(* jwt.decode for the issuer's branch, the Google extra checks; whatever   *)
(* is raised inside goes through the except chain.                         *)
ValidateJwt(v, token, t, keys, netUp) ==
    LET sk == GetSigningKey(v, token, keys, netUp)
        dec == IF v.is_google
               THEN JwtDecode(token, sk.key, GoogleAlgorithms, v.issuer, v.audience,
                              {"exp", "iss", "aud", "email"}, t)
               ELSE JwtDecode(token, sk.key, StandardAlgorithms, v.issuer, v.audience,
                              {"exp", "iss", "aud"}, t)
        out == IF ~sk.ok THEN Raise(MapException(sk.exc), sk.net)
               ELSE IF ~dec.ok THEN Raise(MapException(dec.exc), sk.net)
               ELSE IF v.is_google /\ AzpRejected(v, dec.claims)
                    THEN Raise(MapException("InvalidTokenError"), sk.net)
               ELSE Ok(dec.claims, sk.net)
    IN  [ok |-> out.ok, exc |-> out.exc, claims |-> out.claims, net |-> out.net,
         keys |-> sk.keys]

(* validate after the cache miss: the segment count decides between the    *)
(* tokeninfo call (Google only), the format error and the JWT path.        *)
ValidateMiss(v, token, t, keys, netUp) ==
    IF Len(token) # 3
    THEN IF v.is_google
         THEN LET g == _validate_google_access_token(v, token, t, netUp)
              IN  [ok |-> g.ok, exc |-> g.exc, claims |-> g.claims, net |-> g.net,
                   keys |-> keys]
         ELSE [ok |-> FALSE, exc |-> "InvalidTokenError", claims |-> <<>>, net |-> 0,
               keys |-> keys]
    ELSE ValidateJwt(v, token, t, keys, netUp)

----------------------------------------------------------------------------
(* Scopes *)

RECURSIVE Split(_)
(* str.split(): the words of the string, separators dropped. *)
Split(s) ==
    IF s = <<>> THEN <<>>
    ELSE IF Head(s) = " " THEN Split(Tail(s))
    ELSE <<Head(s)>> \o Split(Tail(s))

(* email[-12:], the last twelve characters of the string (the whole string *)
(* when it is shorter), for the strings of the model.                      *)
Suffix12(email) ==
    CASE email = "alice@keboola.com" -> "@keboola.com"
      [] email = "Alice@keboola.com" -> "@keboola.com"
      [] email = "bob@example.com" -> "@example.com"
      [] email = "eve@notkeboola.com" -> "tkeboola.com"
      [] OTHER -> email

(* email.endswith("@keboola.com") *)
EndsWithKeboola(email) == Suffix12(email) = "@keboola.com"

(* Variants of the scope lists: defaults that include the write scope,    *)
(* and an internal extension without the document-write scope.             *)
GoogleDefaultScopesWithWrite ==
    <<"openid", "email", "profile", "odoo.hr.profile", "odoo.hr.team",
      "odoo.hr.directory", "odoo.leave.read", "odoo.leave.write",
      "odoo.documents.read", "odoo.read", "odoo.write">>
InternalExtraScopesWriteOnly == <<"odoo.write">>
GoogleDefaultScopesWithDocumentsWrite ==
    <<"openid", "email", "profile", "odoo.hr.profile", "odoo.hr.team",
      "odoo.hr.directory", "odoo.leave.read", "odoo.leave.write",
      "odoo.documents.read", "odoo.documents.write", "odoo.read">>

GoogleDefaultScopes ==
    <<"openid", "email", "profile", "odoo.hr.profile", "odoo.hr.team",
      "odoo.hr.directory", "odoo.leave.read", "odoo.leave.write",
      "odoo.documents.read", "odoo.read">>
InternalExtraScopes == <<"odoo.documents.write", "odoo.write">>

(* Variants of the default-grant condition: one that does not look at    *)
(* email_verified, one that does not look at the scopes the token lists.   *)
default_grant_unverified(claims, parsed) ==
    /\ parsed = <<>>
    /\ Get(claims, "iss", None) = "https://accounts.google.com"
    /\ Get(claims, "email", "") \notin {"", None}

default_grant_any_scope(claims, parsed) ==
    /\ Get(claims, "iss", None) = "https://accounts.google.com"
    /\ Get(claims, "email_verified", FALSE)
    /\ Get(claims, "email", "") \notin {"", None}

(* The condition under which extract_user_context grants the default      *)
(* scopes: `not scopes and iss == Google`, then `email_verified and email`. *)
default_grant(claims, parsed) ==
    LET email == Get(claims, "email", "")
        email_verified == Get(claims, "email_verified", FALSE)
    IN  /\ parsed = <<>>
        /\ Get(claims, "iss", None) = "https://accounts.google.com"
        /\ email_verified
        /\ email \notin {"", None}

(* extract_user_context(claims); ref is the claims dict itself, which the  *)
(* user context keeps under "claims".                                      *)
extract_user_context(claims, ref) ==
    LET scope_string == Get(claims, "scope", <<>>)
        parsed == IF scope_string # <<>> THEN Split(scope_string) ELSE <<>>
        email == Get(claims, "email", "")
        scopes ==
            IF default_grant(claims, parsed)
            THEN IF EndsWithKeboola(email)
                 THEN GoogleDefaultScopes \o InternalExtraScopes
                 ELSE GoogleDefaultScopes
            ELSE parsed
    IN  [sub |-> Get(claims, "sub", None),
         email |-> Get(claims, "email", Get(claims, "sub", None)),
         employee_id |-> Get(claims, "odoo_employee_id", 0),
         scopes |-> scopes,
         claims |-> ref]

RECURSIVE AnyIn(_, _)
(* any(scope in have for scope in want), evaluated left to right *)
AnyIn(want, have) ==
    IF want = <<>> THEN FALSE
    ELSE IF \E i \in 1..Len(have) : have[i] = Head(want) THEN TRUE
    ELSE AnyIn(Tail(want), have)

(* A variant that wants every required scope granted. *)
check_scope_access_all(required_scopes, granted_scopes) ==
    \A i \in DOMAIN required_scopes :
        \E j \in DOMAIN granted_scopes : required_scopes[i] = granted_scopes[j]

check_scope_access(required_scopes, granted_scopes) == AnyIn(required_scopes, granted_scopes)

----------------------------------------------------------------------------
(* Configuration tables *)

TOOL_SCOPE_REQUIREMENTS ==
    [get_my_profile |-> <<"odoo.hr.profile", "odoo.read">>,
     get_my_manager |-> <<"odoo.hr.profile", "odoo.read">>,
     get_my_team |-> <<"odoo.hr.team", "odoo.read">>,
     find_colleague |-> <<"odoo.hr.directory", "odoo.read">>,
     get_direct_reports |-> <<"odoo.hr.team", "odoo.read">>,
     update_my_contact |-> <<"odoo.hr.profile.write", "odoo.write">>,
     get_my_leave_balance |-> <<"odoo.leave.read", "odoo.read">>,
     get_my_leave_requests |-> <<"odoo.leave.read", "odoo.read">>,
     request_leave |-> <<"odoo.leave.write", "odoo.write">>,
     cancel_leave_request |-> <<"odoo.leave.write", "odoo.write">>,
     get_public_holidays |-> <<"odoo.leave.read", "odoo.read">>,
     get_my_documents |-> <<"odoo.documents.read", "odoo.read">>,
     get_document_categories |-> <<"odoo.documents.read", "odoo.read">>,
     upload_identity_document |-> <<"odoo.documents.write", "odoo.write">>,
     download_document |-> <<"odoo.documents.read", "odoo.read">>,
     get_document_details |-> <<"odoo.documents.read", "odoo.read">>,
     search_records |-> <<"odoo.read">>,
     get_record |-> <<"odoo.read">>,
     create_record |-> <<"odoo.write">>,
     update_record |-> <<"odoo.write">>,
     delete_record |-> <<"odoo.write">>,
     count_records |-> <<"odoo.read">>,
     list_models |-> <<"odoo.read">>]

(* [t.name for t in EMPLOYEE_TOOLS] *)
EMPLOYEE_TOOLS ==
    {"get_my_profile", "get_my_manager", "get_my_team", "find_colleague",
     "get_direct_reports", "update_my_contact", "get_my_leave_balance",
     "get_my_leave_requests", "request_leave", "cancel_leave_request",
     "get_public_holidays", "get_my_documents", "get_document_categories",
     "upload_identity_document", "download_document", "get_document_details"}

(* The tools config.py classifies as write operations. *)
WRITE_TOOLS ==
    {"request_leave", "cancel_leave_request", "upload_identity_document",
     "update_my_contact", "create_record", "update_record", "delete_record"}

(* The tool names a tools/call request may carry: an employee tool, a      *)
(* generic read tool, a write tool and a missing name.                     *)
CalledTools == {"get_my_profile", "search_records", "delete_record", ""}

(* The validators a process is started with: the resource server's for a   *)
(* Google and for a custom authorization server, and a Google validator    *)
(* constructed with an authorized party.                                   *)
Validators ==
    { TokenValidator(GOOGLE, CLIENT_ID, ""),
      TokenValidator(GOOGLE, CLIENT_ID, CLIENT_ID),
      TokenValidator(CUSTOM, RESOURCE, "") }

----------------------------------------------------------------------------
(* Employee resolution (oauth/user_mapping.py) *)

_EMPLOYEE_CACHE_TTL == 300

(* str.lower(), for the strings of the model: the one with capitals. *)
Lower(x) ==
    CASE x = "Alice@keboola.com" -> "alice@keboola.com"
      [] x = "Google" -> "google"
      [] OTHER -> x

(* user_email.split("@")[0].replace(".", " ").replace("_", " ") *)
EmailName(user_email) ==
    CASE user_email = "alice@keboola.com" -> "alice"
      [] user_email = "Alice@keboola.com" -> "Alice"
      [] user_email = "bob@example.com" -> "bob"
      [] user_email = "carol@example.com" -> "carol"
      [] user_email = "dev@example.com" -> "dev"
      [] user_email = "dup@example.com" -> "dup"
      [] user_email = "john.doe@example.com" -> "john doe"
      [] user_email = "no_body@example.com" -> "no body"
      [] OTHER -> user_email

(* len() of the names above *)
StrLen(x) ==
    CASE x \in {"bob", "dev", "dup", "u-1", "g-1", "s-1"} -> 3
      [] x \in {"alice", "Alice", "carol"} -> 5
      [] x = "no body" -> 7
      [] x = "john doe" -> 8
      [] OTHER -> 0

(* The hr.employee and res.users records of the Odoo database, in the     *)
(* order a search returns them.  department_id is <<>> for Odoo's False.   *)
HrEmployee ==
    <<[id |-> 5, name |-> "Bob Example", work_email |-> "bob@example.com",
       department_id |-> <<2, "Sales">>],
      [id |-> 7, name |-> "Robert Roe", work_email |-> "robert@example.com",
       department_id |-> <<>>],
      [id |-> 9, name |-> "Alice Novak", work_email |-> "alice@keboola.com",
       department_id |-> <<3, "R&D">>],
      [id |-> 11, name |-> "Dup One", work_email |-> "dup@example.com",
       department_id |-> <<>>],
      [id |-> 12, name |-> "Dup Two", work_email |-> "dup@example.com",
       department_id |-> <<>>],
      [id |-> 13, name |-> "Carol Smith", work_email |-> "c.smith@example.com",
       department_id |-> <<>>],
      [id |-> 15, name |-> "John Doe", work_email |-> "jd@example.com",
       department_id |-> <<>>]>>

ResUsers ==
    <<[id |-> 31, login |-> "carol@example.com", employee_id |-> <<13, "Carol Smith">>,
       employee_ids |-> <<13>>],
      [id |-> 32, login |-> "dup@example.com", employee_id |-> <<12, "Dup Two">>,
       employee_ids |-> <<12>>]>>

(* records[:limit] *)
Limit(records, limit) ==
    IF Len(records) <= limit THEN records ELSE SubSeq(records, 1, limit)

(* `name ilike pattern` for the employees and derived names of the model: *)
(* the name contains the pattern, letter case ignored.                     *)
NameILike(name, pattern) ==
    <<name, pattern>> \in {<<"Bob Example", "bob">>, <<"Alice Novak", "alice">>,
                            <<"Alice Novak", "Alice">>, <<"Carol Smith", "carol">>,
                            <<"Dup One", "dup">>, <<"Dup Two", "dup">>,
                            <<"John Doe", "john doe">>}

(* odoo_client.search_read on hr.employee with the domain of each strategy *)
SearchEmployeeById(odoo_employee_id) ==
    LET Match(e) == e.id = odoo_employee_id
    IN  Limit(SelectSeq(HrEmployee, Match), 1)
SearchEmployeeByWorkEmail(user_email) ==
    LET Match(e) == Lower(e.work_email) = Lower(user_email)
    IN  Limit(SelectSeq(HrEmployee, Match), 2)
SearchEmployeeByName(email_name) ==
    LET Match(e) == NameILike(e.name, email_name)
    IN  Limit(SelectSeq(HrEmployee, Match), 1)
(* odoo_client.search_read on res.users by login *)
SearchUserByLogin(user_email) ==
    LET Match(u) == Lower(u.login) = Lower(user_email)
    IN  Limit(SelectSeq(ResUsers, Match), 1)
(* odoo_client.read(model="hr.employee", ids=[emp_id]) *)
ReadEmployee(emp_id) ==
    LET Match(e) == e.id = emp_id
    IN  SelectSeq(HrEmployee, Match)

(* _normalize_employee(employee); a department_id of 0 stands for None. *)
_normalize_employee(employee) ==
    LET dept == employee.department_id
    IN  [id |-> employee.id, name |-> employee.name, email |-> employee.work_email,
         department_id |-> IF dept # <<>> THEN dept[1] ELSE 0,
         department_name |-> IF dept # <<>> THEN dept[2] ELSE None]

NoEmployee == [id |-> 0, name |-> None, email |-> None, department_id |-> 0,
               department_name |-> None]

(* oauth_claims.get("email") or oauth_claims.get("sub") *)
UserEmailOf(oauth_claims) ==
    IF Get(oauth_claims, "email", None) \notin {"", None}
    THEN oauth_claims["email"]
    ELSE Get(oauth_claims, "sub", None)

(* _get_cached_employee(email) at time t: the record returned (NoEmployee  *)
(* for None) and the cache it leaves, the expired entry deleted.           *)
_get_cached_employee(cache, email, t) ==
    LET email_lower == Lower(email)
    IN  IF email_lower \in DOMAIN cache /\ t < cache[email_lower].expiry
        THEN cache[email_lower].employee_info
        ELSE NoEmployee
EmployeeCacheAfterLookup(cache, email, t) ==
    LET email_lower == Lower(email)
    IN  IF email_lower \in DOMAIN cache /\ ~(t < cache[email_lower].expiry)
        THEN Without(cache, email_lower)
        ELSE cache

(* _cache_employee(email, employee_info) at time t *)
_cache_employee(cache, email, employee_info, t) ==
    DictSet(cache, Lower(email),
            [employee_info |-> employee_info, expiry |-> t + _EMPLOYEE_CACHE_TTL])

(* Variants: a name search for a derived name of any length, a work-email  *)
(* strategy that takes only an unambiguous match, and a failure that is    *)
(* remembered in the cache.                                                *)
FuzzyEligibleAlways(email_name) == TRUE
EmployeeNotFoundCached(user_email, calls) ==
    [ok |-> FALSE, employee_info |-> NoEmployee,
     cached |-> user_email \notin {"", None}, calls |-> calls,
     exc |-> IF user_email \notin {"", None}
             THEN <<"No employee found for email: ", user_email>>
             ELSE <<"No email in OAuth token to map to employee">>]
EmailMatchUnique(results_email) ==
    IF Len(results_email) > 1 THEN <<>> ELSE results_email

(* `if len(email_name) > 3` *)
FuzzyEligible(email_name) == StrLen(email_name) > 3

(* Strategy 1: the records the work-email search answered, of which the    *)
(* first is taken, whether there are several or one.                       *)
EmailMatch(results_email) == results_email

(* `raise EmployeeNotFoundError(...)` after the ERP calls `calls`: no       *)
(* record, nothing written to the cache, exc the parts of the message.     *)
EmployeeNotFoundError(user_email, calls) ==
    [ok |-> FALSE, employee_info |-> NoEmployee, cached |-> FALSE, calls |-> calls,
     exc |-> IF user_email \notin {"", None}
             THEN <<"No employee found for email: ", user_email>>
             ELSE <<"No email in OAuth token to map to employee">>]

(* get_employee_for_user after a cache miss: the strategies in order.      *)
(* ok: a record is returned (otherwise EmployeeNotFoundError is raised);   *)
(* cached: the record is written to the employee cache; calls: the ERP     *)
(* calls issued, in order.                                                 *)
Strategies(user_email, odoo_employee_id) ==
    LET has_email == user_email \notin {"", None}
        Found(e, calls) == [ok |-> TRUE, employee_info |-> _normalize_employee(e),
                            cached |-> has_email, calls |-> calls, exc |-> <<>>]
        NotFound(calls) == EmployeeNotFoundError(user_email, calls)
        by_id == IF odoo_employee_id # 0 THEN SearchEmployeeById(odoo_employee_id) ELSE <<>>
        calls0 == IF odoo_employee_id # 0 THEN <<"search_id">> ELSE <<>>
        results_email == EmailMatch(SearchEmployeeByWorkEmail(user_email))
        results_user == SearchUserByLogin(user_email)
        calls1 == calls0 \o <<"search_email", "search_login">>
        emp_id == IF results_user = <<>> THEN 0
                  ELSE IF results_user[1].employee_id # <<>>
                  THEN results_user[1].employee_id[1]
                  ELSE IF results_user[1].employee_ids # <<>>
                  THEN results_user[1].employee_ids[1]
                  ELSE 0
        read == IF emp_id # 0 THEN ReadEmployee(emp_id) ELSE <<>>
        calls2 == IF emp_id # 0 THEN calls1 \o <<"read_employee">> ELSE calls1
        email_name == EmailName(user_email)
        by_name == SearchEmployeeByName(email_name)
        calls3 == calls2 \o <<"search_name">>
    IN  IF by_id # <<>> THEN Found(by_id[1], calls0)
        ELSE IF ~has_email THEN NotFound(calls0)
        ELSE IF results_email # <<>> THEN Found(results_email[1], calls1)
        ELSE IF read # <<>> THEN Found(read[1], calls2)
        ELSE IF FuzzyEligible(email_name)
        THEN IF by_name # <<>> THEN Found(by_name[1], calls3) ELSE NotFound(calls3)
        ELSE NotFound(calls2)

(* get_employee_for_user reaches asyncio.gather(task_email, task_user):    *)
(* the direct id found nothing, and there is an email.                     *)
GatherReached(user_email, odoo_employee_id) ==
    /\ user_email \notin {"", None}
    /\ odoo_employee_id = 0 \/ SearchEmployeeById(odoo_employee_id) = <<>>

(* The two searches handed to asyncio.gather. *)
GatheredSearches == {"search_email", "search_login"}

(* The strategies when one of the gathered searches raises a backend      *)
(* error (what _run_in_executor maps a fault or a connection error to):    *)
(* gather is called without return_exceptions, so the await raises that    *)
(* error whatever the other search returned, and nothing is cached.        *)
StrategiesBackendError(user_email, odoo_employee_id, failing) ==
    [ok |-> FALSE, employee_info |-> NoEmployee, cached |-> FALSE,
     calls |-> (IF odoo_employee_id # 0 THEN <<"search_id">> ELSE <<>>)
               \o <<"search_email", "search_login">>,
     exc |-> <<"OdooError raised by ", failing>>]

----------------------------------------------------------------------------
(* OdooClient (odoo/client.py) and its errors (odoo/exceptions.py) *)

MaxCallers == 3
MaxHandshakes == 3
Callers == 1..MaxCallers

(* An exception class of odoo/exceptions.py with its class attributes. *)
OdooErrorClass(name) ==
    CASE name = "OdooAuthenticationError" ->
             [class |-> name, error_code |-> "ACCESS_DENIED", is_retryable |-> FALSE]
      [] name = "OdooPermissionError" ->
             [class |-> name, error_code |-> "PERMISSION_DENIED", is_retryable |-> FALSE]
      [] name = "OdooRecordNotFoundError" ->
             [class |-> name, error_code |-> "RECORD_NOT_FOUND", is_retryable |-> FALSE]
      [] name = "OdooValidationError" ->
             [class |-> name, error_code |-> "VALIDATION_ERROR", is_retryable |-> FALSE]
      [] name = "OdooConnectionError" ->
             [class |-> name, error_code |-> "CONNECTION_ERROR", is_retryable |-> TRUE]
      [] name = "OdooTimeoutError" ->
             [class |-> name, error_code |-> "CONNECTION_TIMEOUT", is_retryable |-> TRUE]
      [] name = "OdooServerError" ->
             [class |-> name, error_code |-> "SERVER_ERROR", is_retryable |-> TRUE]
      [] OTHER ->
             [class |-> "OdooError", error_code |-> "ODOO_ERROR", is_retryable |-> FALSE]

(* A fault string is the sequence of its pieces; `word in fault_string`    *)
(* for the class names the mapping looks for, each a piece of its own.     *)
Contains(fault_string, word) == \E i \in DOMAIN fault_string : fault_string[i] = word

(* Variant: the class decided by the fault code alone. *)
map_odoo_fault_by_code(fault) ==
    CASE fault.faultCode = 3 -> OdooErrorClass("OdooAuthenticationError")
      [] fault.faultCode = 4 -> OdooErrorClass("OdooPermissionError")
      [] fault.faultCode = 2 -> OdooErrorClass("OdooRecordNotFoundError")
      [] fault.faultCode = 1 -> OdooErrorClass("OdooValidationError")
      [] OTHER -> OdooErrorClass("OdooError")

(* map_odoo_fault(fault): the class of the error returned *)
map_odoo_fault(fault) ==
    LET fault_code == fault.faultCode
        fault_string == fault.faultString
    IN  IF fault_code = 3 THEN OdooErrorClass("OdooAuthenticationError")
        ELSE IF fault_code = 4 \/ Contains(fault_string, "AccessError")
        THEN OdooErrorClass("OdooPermissionError")
        ELSE IF fault_code = 2 \/ Contains(fault_string, "MissingError")
        THEN OdooErrorClass("OdooRecordNotFoundError")
        ELSE IF \/ fault_code = 1
                \/ Contains(fault_string, "UserError")
                \/ Contains(fault_string, "ValidationError")
        THEN OdooErrorClass("OdooValidationError")
        ELSE OdooErrorClass("OdooError")

(* map_connection_error(error), error the class of the exception caught:   *)
(* socket.timeout is TimeoutError.                                         *)
map_connection_error(error) ==
    IF error = "TimeoutError" THEN OdooErrorClass("OdooTimeoutError")
    ELSE OdooErrorClass("OdooConnectionError")

(* What the XML-RPC call common.authenticate can end with: a uid, False,   *)
(* a Fault, or one of the exceptions _run_in_executor catches as           *)
(* (TimeoutError, ConnectionError, OSError).                               *)
FaultCodes == {0, 1, 2, 3, 4, 5, 999}
FaultStrings ==
    {<<"Access Denied">>,
     <<"UserError", ": Date must be in the future">>,
     <<"ValidationError", ": Required field missing">>,
     <<"MissingError", ": Record does not exist">>,
     <<"AccessError", ": You don't have access to this record">>,
     <<"Some unknown error occurred">>,
     <<"UserError", ": see ", "MissingError">>,
     <<"Traceback: odoo.exceptions.", "AccessError", ": denied">>}
Faults == [faultCode : FaultCodes, faultString : FaultStrings]
ConnectionErrors ==
    {"TimeoutError", "ConnectionRefusedError", "ConnectionResetError", "OSError"}
Uids == {2, 7}
Answer(kind, value) == [kind |-> kind, value |-> value]
AllOutcomes ==
    {Answer("uid", u) : u \in Uids} \cup {Answer("uid", 0)}
        \cup {Answer("fault", f) : f \in Faults}
        \cup {Answer("error", e) : e \in ConnectionErrors}
HandshakeOutcomes ==
    {Answer("uid", 2), Answer("uid", 7), Answer("uid", 0),
     Answer("fault", [faultCode |-> 3, faultString |-> <<"Access Denied">>]),
     Answer("error", "TimeoutError")}

(* A caller of authenticate(): pc "idle", "waiting" (for _uid_lock), "rpc"  *)
(* (its handshake is in flight) or "done"; ret the uid returned, 0 for      *)
(* none; exc the error raised and from the answer it was mapped from.       *)
NoRaise == [class |-> "", error_code |-> "", is_retryable |-> FALSE]
NoAuthCall == [pc |-> "idle", ret |-> 0, exc |-> NoRaise, from |-> <<>>]

----------------------------------------------------------------------------
(* Employee self-service tools: the document store and the leave requests *)

DMS_RESTRICTED_FOLDERS == {"Background Checks", "Offboarding Documents"}

(* dms.directory: HR Documents > employee name > category folders, and a   *)
(* shared folder next to it.  parent_id 0 is Odoo's False.                 *)
DmsDirectory ==
    [d \in 1..8 |->
        CASE d = 1 -> [name |-> "HR Documents", parent_id |-> 0]
          [] d = 2 -> [name |-> "Bob Example", parent_id |-> 1]
          [] d = 3 -> [name |-> "Contracts", parent_id |-> 2]
          [] d = 4 -> [name |-> "Background Checks", parent_id |-> 2]
          [] d = 5 -> [name |-> "Alice Novak", parent_id |-> 1]
          [] d = 6 -> [name |-> "Contracts", parent_id |-> 5]
          [] d = 7 -> [name |-> "2024", parent_id |-> 6]
          [] d = 8 -> [name |-> "Payroll Exports", parent_id |-> 0]]

(* dms.file: directory_id 0 is a file without a directory. *)
DmsFile ==
    [f \in 101..108 |->
        CASE f = 101 -> [name |-> "contract_bob.pdf", directory_id |-> 3]
          [] f = 102 -> [name |-> "check_bob.pdf", directory_id |-> 4]
          [] f = 103 -> [name |-> "contract_alice.pdf", directory_id |-> 6]
          [] f = 104 -> [name |-> "note_alice.pdf", directory_id |-> 5]
          [] f = 105 -> [name |-> "payroll_2024.csv", directory_id |-> 8]
          [] f = 106 -> [name |-> "orphan.pdf", directory_id |-> 0]
          [] f = 107 -> [name |-> "index.pdf", directory_id |-> 1]
          [] f = 108 -> [name |-> "amendment_alice.pdf", directory_id |-> 7]]

DocumentIds == (DOMAIN DmsFile) \cup {999}
ToolEmployeeIds == {5, 9, 99}

(* odoo_client.read(model="dms.directory", ids=[id]) *)
ReadDirectory(id) == IF id \in DOMAIN DmsDirectory THEN <<DmsDirectory[id]>> ELSE <<>>

(* The checks download_document and get_document_details both run before  *)
(* they answer: the error they return, "" when none, and the category      *)
(* folder's name (None when no directory was read).                        *)
DocumentCheck(document_id, employee_id) ==
    LET found == document_id \in DOMAIN DmsFile
        directory_id == IF found THEN DmsFile[document_id].directory_id ELSE 0
        employees == ReadEmployee(employee_id)
        directory == IF directory_id # 0 THEN ReadDirectory(directory_id) ELSE <<>>
        parent_id == IF directory # <<>> THEN directory[1].parent_id ELSE 0
        parent_dir == IF parent_id # 0 THEN ReadDirectory(parent_id) ELSE <<>>
        category == IF directory # <<>> THEN directory[1].name ELSE None
    IN  [category |-> category,
         error |->
            IF ~found THEN "Document not found"
            ELSE IF employees = <<>> THEN "Employee not found"
            ELSE IF directory # <<>> /\ directory[1].name \in DMS_RESTRICTED_FOLDERS
                 THEN "Access denied to restricted folder"
            ELSE IF parent_dir # <<>> /\ parent_dir[1].name # employees[1].name
                 THEN "Access denied - not your document"
            ELSE ""]

(* The JSON object each of the two tools answers with. *)
download_document(document_id, employee_id) ==
    LET c == DocumentCheck(document_id, employee_id)
    IN  IF c.error # "" THEN [error |-> c.error]
        ELSE [id |-> document_id, filename |-> DmsFile[document_id].name,
              content_base64 |-> <<"content of", document_id>>]
get_document_details(document_id, employee_id) ==
    LET c == DocumentCheck(document_id, employee_id)
    IN  IF c.error # "" THEN [error |-> c.error]
        ELSE [id |-> document_id, filename |-> DmsFile[document_id].name,
              category |-> c.category]

(* hr.leave: the leave requests, by id. *)
HrLeave ==
    [l \in 201..203 |->
        CASE l = 201 -> [employee_id |-> 5, state |-> "draft"]
          [] l = 202 -> [employee_id |-> 5, state |-> "validate"]
          [] l = 203 -> [employee_id |-> 9, state |-> "confirm"]]

----------------------------------------------------------------------------
(* State *)

(* res: kind "none", "claims", "error" or "cancelled"; api the entry point; *)
(* exc the exception class; obj the dict returned and ret its content at   *)
(* the return; hit whether the cache answered; net the network calls the   *)
(* call made; up whether the network answered them.                        *)
NoRes == [kind |-> "none", api |-> "", exc |-> "", obj |-> NoRef, ret |-> <<>>,
          hit |-> FALSE, net |-> 0, up |-> TRUE]

NoAccess == [fn |-> "none", status |-> 0, result |-> FALSE]

NoHttp == [path |-> "", auth |-> ""]

(* gate: "none", "passed" or "failed"; erp: the ERP calls issued;          *)
(* user_email, odoo_employee_id: the locals of get_employee_for_user;      *)
(* kind: "none", "record" (employee_info returned) or "error"              *)
(* (EmployeeNotFoundError, exc the parts of its message); hit: answered    *)
(* from the cache; before: the employee cache when the call began.         *)
NoCall == [gate |-> "none", erp |-> <<>>, user_email |-> None,
           odoo_employee_id |-> 0, kind |-> "none", employee_info |-> NoEmployee,
           hit |-> FALSE, exc |-> <<>>, before |-> EmptyDict]

(* body: of, the ProtectedResourceMetadata serialized, and dict, what      *)
(* to_dict returned; <<>> while the request has no such body.              *)
NoBody == <<>>

(* Settings as loaded from the environment: the defaults, and the test     *)
(* modes switched on.                                                      *)
ProductionSettings ==
    [oauth_dev_mode |-> FALSE, yolo_mode |-> None, oauth_provider |-> "google",
     oauth_client_id |-> CLIENT_ID, oauth_authorization_server |-> GOOGLE,
     oauth_resource_identifier |-> RESOURCE]
SettingsSet ==
    {ProductionSettings,
     [ProductionSettings EXCEPT !.oauth_dev_mode = TRUE],
     [ProductionSettings EXCEPT !.yolo_mode = "read"],
     [ProductionSettings EXCEPT !.yolo_mode = "true"]}

(* is_test_mode = settings.oauth_dev_mode or settings.yolo_mode *)
is_test_mode == settings.oauth_dev_mode \/ settings.yolo_mode \notin {None, ""}

(* The OdooClient after construction: not authenticated, the lock free. *)
ClientIdle ==
    /\ odooClient = [_uid |-> 0, _uid_lock |-> 0, rpcs |-> 0, failed |-> 0]
    /\ authCalls = [c \in Callers |-> NoAuthCall]

(* run: tool, the employee tool; pc, "idle", "checked" (between the        *)
(* ownership check and the write) or "done"; arg, the document or request  *)
(* id; employee_id, the authenticated employee; seen, what the check read; *)
(* result, the JSON object answered.                                       *)
NoRun == [tool |-> "", pc |-> "idle", arg |-> 0, employee_id |-> 0, seen |-> <<>>,
          result |-> <<>>]

(* The database as the tools find it, and no tool running. *)
ErpIdle ==
    /\ erp = [leave |-> HrLeave, unlinks |-> {}]
    /\ run = [r \in Reqs |-> NoRun]

(* The process after start-up: nothing cached, no request under way. *)
ValidatorInit ==
    /\ ClientIdle
    /\ ErpIdle
    /\ now = StartTime
    /\ tokenCache = EmptyDict
    /\ heap = EmptyDict
    /\ validated = EmptyDict
    /\ jwksLoaded = FALSE
    /\ jwksCacheTime = 0
    /\ pyjwk = "absent"
    /\ pc = [r \in Reqs |-> "idle"]
    /\ tok = [r \in Reqs |-> <<>>]
    /\ fetchNow = [r \in Reqs |-> 0]
    /\ res = [r \in Reqs |-> NoRes]
    /\ user = [r \in Reqs |-> NoUser]
    /\ tool = [r \in Reqs |-> ""]
    /\ resp = [r \in Reqs |-> 0]
    /\ http = [r \in Reqs |-> NoHttp]
    /\ www = [r \in Reqs |-> ""]
    /\ call = [r \in Reqs |-> NoCall]
    /\ employeeCache = EmptyDict
    /\ resolved = EmptyDict
    /\ body = [r \in Reqs |-> NoBody]

CtxIdle ==
    /\ ctxIn = EmptyDict
    /\ ctxOut = <<>>

GateIdle ==
    /\ required = <<>>
    /\ granted = <<>>
    /\ access = NoAccess
    /\ CtxIdle

Init ==
    /\ validator \in Validators
    /\ ValidatorInit
    /\ GateIdle
    /\ settings = ProductionSettings

(* A dict lives while something refers to it: a cache entry, the claims a  *)
(* validation call returned to a request, or a user context.               *)
Referenced(o, cache, resF, userF) ==
    \/ \E h \in DOMAIN cache : cache[h].obj = o
    \/ \E r \in Reqs : resF[r].obj = o
    \/ \E r \in Reqs : userF[r] # NoUser /\ userF[r].claims = o
Gc(h, cache, resF, userF) ==
    [o \in {x \in DOMAIN h : Referenced(x, cache, resF, userF)} |-> h[o]]

(* The id of a dict validation is about to create for the token. *)
FreeObjs(token) ==
    {k \in 1..MaxObjs : <<_get_token_hash(token), k>> \notin DOMAIN heap}
NewObj(token) ==
    <<_get_token_hash(token), CHOOSE k \in FreeObjs(token) : \A j \in FreeObjs(token) : k <= j>>

(* A variant of the lookup's clean-up that drops every expired entry. *)
CacheAfterLookupPurging(cache, token, t) ==
    [h \in {x \in DOMAIN cache : t < cache[x].expiry} |-> cache[h]]

(* _get_cached_claims(token) at time t: the dict returned (NoRef for None) *)
(* and the cache it leaves, the token's expired entry deleted.             *)
CachedObj(cache, token, t) ==
    LET h == _get_token_hash(token)
    IN  IF h \in DOMAIN cache /\ t < cache[h].expiry THEN cache[h].obj ELSE NoRef
CacheAfterLookup(cache, token, t) ==
    LET h == _get_token_hash(token)
    IN  IF h \in DOMAIN cache /\ ~(t < cache[h].expiry) THEN Without(cache, h) ELSE cache

(* _cache_claims(token, claims) at time t, claims being the dict o. *)
_cache_claims(cache, token, claims, o, t) ==
    DictSet(cache, _get_token_hash(token), [obj |-> o, expiry |-> CacheExpiry(claims, t)])

----------------------------------------------------------------------------
(* How a validation call ends.  viaMiddleware: the call is the one         *)
(* oauth_middleware awaits, which goes on to build request.state.user and  *)
(* to call the route handler, or answers 401.                              *)

(* The call returns the dict o (content heapNew[o]). *)
ReturnClaims(r, apiName, o, heapNew, cacheNew, hit, net, viaMiddleware) ==
    LET resNew == [res EXCEPT ![r] = [kind |-> "claims", api |-> apiName, exc |-> "",
                                      obj |-> o, ret |-> heapNew[o], hit |-> hit, net |-> net,
                                      up |-> TRUE]]
        userNew == IF viaMiddleware
                   THEN [user EXCEPT ![r] = extract_user_context(heapNew[o], o)]
                   ELSE user
    IN  /\ res' = resNew
        /\ user' = userNew
        /\ tokenCache' = cacheNew
        /\ heap' = Gc(heapNew, cacheNew, resNew, userNew)
        /\ validated' = Gc(IF hit THEN validated ELSE DictSet(validated, o, heapNew[o]),
                           cacheNew, resNew, userNew)
        /\ pc' = [pc EXCEPT ![r] = IF viaMiddleware THEN "handler" ELSE "returned"]
        /\ resp' = resp
        /\ www' = www

(* A variant of the skipped paths that also lets /mcp through. *)
skip_paths_with_mcp ==
    {"/health", "/.well-known/oauth-protected-resource", "/callback", "/", "/mcp"}

(* The paths oauth_middleware lets through, and the keys of OAUTH_SCOPES. *)
skip_paths == {"/health", "/.well-known/oauth-protected-resource", "/callback", "/"}
OAUTH_SCOPES ==
    <<"openid", "profile", "email", "odoo.read", "odoo.write", "odoo.hr.profile",
      "odoo.hr.profile.write", "odoo.hr.team", "odoo.hr.directory", "odoo.leave.read",
      "odoo.leave.write", "odoo.leave.approve", "odoo.documents.read",
      "odoo.documents.write">>

(* Settings.is_google_oauth *)
is_google_oauth(s) == Lower(s.oauth_provider) = "google"

(* _get_oauth_audience() *)
_get_oauth_audience(s) ==
    IF is_google_oauth(s) /\ s.oauth_client_id \notin {None, ""}
    THEN s.oauth_client_id
    ELSE s.oauth_resource_identifier

(* _get_advertised_scopes() *)
_get_advertised_scopes(s) ==
    IF is_google_oauth(s) THEN <<"openid", "email", "profile">> ELSE OAUTH_SCOPES

(* ProtectedResourceMetadata(resource=..., authorization_servers=...,      *)
(* scopes_supported=...): the other fields take their defaults.            *)
ProtectedResourceMetadata(resource, authorization_servers, scopes_supported) ==
    [resource |-> resource, authorization_servers |-> authorization_servers,
     scopes_supported |-> scopes_supported,
     bearer_methods_supported |-> <<"header">>,
     resource_documentation |-> None,
     resource_signing_alg_values_supported |-> <<"RS256", "ES256">>]

(* Variant: every list is left out when it is empty. *)
to_dict_nonempty_only(m) ==
    LET present == [resource |-> TRUE,
                    authorization_servers |-> m.authorization_servers # <<>>,
                    scopes_supported |-> m.scopes_supported # <<>>,
                    bearer_methods_supported |-> m.bearer_methods_supported # <<>>,
                    resource_documentation |-> m.resource_documentation \notin {None, ""},
                    resource_signing_alg_values_supported |->
                        m.resource_signing_alg_values_supported # <<>>]
    IN  [k \in {x \in DOMAIN present : present[x]} |-> m[k]]

(* ProtectedResourceMetadata.to_dict() *)
to_dict(m) ==
    LET present == [resource |-> TRUE,
                    authorization_servers |-> TRUE,
                    scopes_supported |-> m.scopes_supported # <<>>,
                    bearer_methods_supported |-> m.bearer_methods_supported # <<>>,
                    resource_documentation |-> m.resource_documentation \notin {None, ""},
                    resource_signing_alg_values_supported |->
                        m.resource_signing_alg_values_supported # <<>>]
    IN  [k \in {x \in DOMAIN present : present[x]} |-> m[k]]

(* The module-level resource_server of http_server.py: the validator and   *)
(* the metadata OAuthResourceServer.__post_init__ builds from the settings.*)
resource_server_validator(s) ==
    TokenValidator(s.oauth_authorization_server, _get_oauth_audience(s), "")
resource_server_metadata ==
    ProtectedResourceMetadata(settings.oauth_resource_identifier,
                              <<settings.oauth_authorization_server>>,
                              _get_advertised_scopes(settings))

(* The WWW-Authenticate headers of the middleware's two 401 answers. *)
BearerChallenge == "Bearer realm=\"odoo-mcp\""
InvalidTokenChallenge == "Bearer realm=\"odoo-mcp\", error=\"invalid_token\""

(* The call raises exc; oauth_middleware's `except Exception` answers 401. *)
RaiseError(r, apiName, exc, cacheNew, net, up, viaMiddleware) ==
    LET resNew == [res EXCEPT ![r] = [kind |-> "error", api |-> apiName, exc |-> exc,
                                      obj |-> NoRef, ret |-> <<>>, hit |-> FALSE, net |-> net,
                                      up |-> up]]
    IN  /\ res' = resNew
        /\ user' = user
        /\ tokenCache' = cacheNew
        /\ heap' = Gc(heap, cacheNew, resNew, user)
        /\ validated' = Gc(validated, cacheNew, resNew, user)
        /\ pc' = [pc EXCEPT ![r] = "returned"]
        /\ resp' = IF viaMiddleware THEN [resp EXCEPT ![r] = 401] ELSE resp
        /\ www' = IF viaMiddleware THEN [www EXCEPT ![r] = InvalidTokenChallenge] ELSE www

(* TokenValidator.validate(token), whole: cache lookup, then on a miss the *)
(* validation and, on success only, _cache_claims.  net0 counts the        *)
(* network calls the caller already made for this request.                 *)
validate(r, apiName, token, netUp, net0, viaMiddleware) ==
    LET cached == CachedObj(tokenCache, token, now)
        cache1 == CacheAfterLookup(tokenCache, token, now)
        m == ValidateMiss(validator, token, now, pyjwk, netUp)
    IN  IF cached # NoRef
        THEN /\ ReturnClaims(r, apiName, cached, heap, tokenCache, TRUE, net0, viaMiddleware)
             /\ pyjwk' = pyjwk
        ELSE IF m.ok
        THEN /\ FreeObjs(token) # {}
             /\ ReturnClaims(r, apiName, NewObj(token), DictSet(heap, NewObj(token), m.claims),
                             _cache_claims(cache1, token, m.claims, NewObj(token), now),
                             FALSE, net0 + m.net, viaMiddleware)
             /\ pyjwk' = m.keys
        ELSE /\ RaiseError(r, apiName, m.exc, cache1, net0 + m.net, netUp, viaMiddleware)
             /\ pyjwk' = m.keys

----------------------------------------------------------------------------
(* Actions *)

(* Time passes. *)
Tick ==
    /\ now + TickStep <= StartTime + MaxElapsed
    /\ now' = now + TickStep
    /\ UNCHANGED <<gateVars, toolVars, http, www, validator, tokenCache, heap, validated,
                   jwksLoaded, jwksCacheTime, pyjwk, pc, tok, fetchNow, res, user, tool, resp>>

(* A caller runs the blocking validate(token) (OAuthResourceServer.        *)
(* validate_token). *)
ValidateSync(r, token, netUp) ==
    /\ pc[r] = "idle"
    /\ tok' = [tok EXCEPT ![r] = token]
    /\ validate(r, "validate", token, netUp, 0, FALSE)
    /\ UNCHANGED <<gateVars, toolVars, http, now, validator, jwksLoaded, jwksCacheTime,
                   fetchNow, tool>>

(* oauth_middleware receives a request with "Authorization: Bearer token"  *)
(* on a protected path and awaits validate_async(token), up to its first   *)
(* suspension: a cache hit returns at once, an opaque token on a Google    *)
(* validator waits for tokeninfo, anything else goes to fetch_jwks, which  *)
(* returns without a request while the key set is fresh and otherwise      *)
(* waits for the key-distribution endpoint.                                *)
MiddlewareStart(r, token, netUp) ==
    LET cached == CachedObj(tokenCache, token, now)
        cache1 == CacheAfterLookup(tokenCache, token, now)
    IN  /\ pc[r] = "idle"
        /\ ~is_test_mode
        /\ http' = [http EXCEPT ![r] = [path |-> "/mcp", auth |-> "Bearer"]]
        /\ tok' = [tok EXCEPT ![r] = token]
        /\ IF cached # NoRef
           THEN /\ ReturnClaims(r, "validate_async", cached, heap, tokenCache, TRUE, 0, TRUE)
                /\ UNCHANGED <<pyjwk, fetchNow>>
           ELSE IF Len(token) # 3 /\ validator.is_google
           THEN /\ pc' = [pc EXCEPT ![r] = "tokeninfo"]
                /\ tokenCache' = cache1
                /\ heap' = Gc(heap, cache1, res, user)
                /\ validated' = Gc(validated, cache1, res, user)
                /\ UNCHANGED <<pyjwk, fetchNow, res, user, resp, www>>
           ELSE IF jwksLoaded /\ (now - jwksCacheTime) < _jwks_cache_ttl
           THEN /\ validate(r, "validate_async", token, netUp, 0, TRUE)
                /\ UNCHANGED fetchNow
           ELSE /\ pc' = [pc EXCEPT ![r] = "jwks"]
                /\ fetchNow' = [fetchNow EXCEPT ![r] = now]
                /\ tokenCache' = cache1
                /\ heap' = Gc(heap, cache1, res, user)
                /\ validated' = Gc(validated, cache1, res, user)
                /\ UNCHANGED <<pyjwk, res, user, resp, www>>
        /\ UNCHANGED <<gateVars, toolVars, now, validator, jwksLoaded, jwksCacheTime, tool>>

(* The awaited tokeninfo call answers or fails; on success the claims are  *)
(* cached and returned.                                                    *)
TokeninfoReturn(r, netUp) ==
    LET g == _validate_google_access_token_async(validator, tok[r], now, netUp)
    IN  /\ pc[r] = "tokeninfo"
        /\ IF g.ok
           THEN /\ FreeObjs(tok[r]) # {}
                /\ ReturnClaims(r, "validate_async", NewObj(tok[r]),
                                DictSet(heap, NewObj(tok[r]), g.claims),
                                _cache_claims(tokenCache, tok[r], g.claims, NewObj(tok[r]), now),
                                FALSE, g.net, TRUE)
           ELSE RaiseError(r, "validate_async", g.exc, tokenCache, g.net, netUp, TRUE)
        /\ UNCHANGED <<gateVars, toolVars, http, now, validator, jwksLoaded, jwksCacheTime, pyjwk,
                   tok, fetchNow, tool>>

(* The awaited JWKS request of fetch_jwks answers or fails.  A failure is  *)
(* the httpx exception, which nothing in validate_async catches; on an     *)
(* answer the key set and the time fetch_jwks started are stored and       *)
(* validate(token) runs.                                                   *)
JwksReturn(r, fetched, netUp) ==
    /\ pc[r] = "jwks"
    /\ IF fetched
       THEN /\ jwksLoaded' = TRUE
            /\ jwksCacheTime' = fetchNow[r]
            /\ validate(r, "validate_async", tok[r], netUp, 1, TRUE)
       ELSE /\ RaiseError(r, "validate_async", "httpx.ConnectError", tokenCache, 1, FALSE, TRUE)
            /\ UNCHANGED <<jwksLoaded, jwksCacheTime, pyjwk>>
    /\ UNCHANGED <<gateVars, toolVars, http, now, validator, tok, fetchNow, tool>>

(* The request is cancelled, or times out, while validate_async is         *)
(* suspended: CancelledError is raised at the await.                       *)
Cancel(r) ==
    /\ pc[r] \in {"tokeninfo", "jwks"}
    /\ res' = [res EXCEPT ![r] = [kind |-> "cancelled", api |-> "validate_async",
                                  exc |-> "asyncio.CancelledError", obj |-> NoRef, ret |-> <<>>,
                                  hit |-> FALSE, net |-> 1, up |-> TRUE]]
    /\ pc' = [pc EXCEPT ![r] = "returned"]
    /\ UNCHANGED <<gateVars, toolVars, http, www, now, validator, tokenCache, heap, validated,
                   jwksLoaded, jwksCacheTime, pyjwk, tok, fetchNow, user, tool, resp>>

(* get_employee_for_user up to the cache check: its locals, the record    *)
(* the cache answers with (NoEmployee for a miss) and the cache it leaves. *)
EmployeeLookup(oauth_claims, cache, t) ==
    LET user_email == UserEmailOf(oauth_claims)
        has_email == user_email \notin {"", None}
    IN  [user_email |-> user_email,
         odoo_employee_id |-> Get(oauth_claims, "odoo_employee_id", 0),
         cached |-> IF has_email THEN _get_cached_employee(cache, user_email, t)
                    ELSE NoEmployee,
         cache |-> IF has_email THEN EmployeeCacheAfterLookup(cache, user_email, t)
                   ELSE cache]

(* A variant of handle_tools_call's scope gate that lets every call pass. *)
ScopeGateOpen(required_scopes, granted_scopes) == TRUE

(* The scope gate of handle_tools_call. *)
ScopeGate(required_scopes, granted_scopes) ==
    check_scope_access(required_scopes, granted_scopes)

(* handle_tools_call(params, user) up to its first await: the missing      *)
(* name, the scope gate, and for an employee tool without a pre-known      *)
(* employee id the claims handed to get_employee_for_user, which get the   *)
(* user's email written into them when they carry none, and the cache      *)
(* check of get_employee_for_user.  Then the first ERP call is under way:  *)
(* the tool's own when the employee is known, the resolver's otherwise.    *)
ToolsCall(r, name) ==
    LET u == user[r]
        required_scopes == Get(TOOL_SCOPE_REQUIREMENTS, name, <<"odoo.read">>)
        claims == heap[u.claims]
        claims1 == IF "email" \notin DOMAIN claims
                   THEN DictSet(claims, "email", u.email) ELSE claims
        l == EmployeeLookup(claims1, employeeCache, now)
    IN  /\ pc[r] = "handler"
        /\ tool' = [tool EXCEPT ![r] = name]
        /\ IF name = ""
           THEN /\ resp' = [resp EXCEPT ![r] = 400]
                /\ pc' = [pc EXCEPT ![r] = "returned"]
                /\ UNCHANGED <<heap, call, employeeCache>>
           ELSE IF ~ScopeGate(required_scopes, u.scopes)
           THEN /\ resp' = [resp EXCEPT ![r] = 403]
                /\ pc' = [pc EXCEPT ![r] = "returned"]
                /\ call' = [call EXCEPT ![r].gate = "failed"]
                /\ UNCHANGED <<heap, employeeCache>>
           ELSE IF name \in EMPLOYEE_TOOLS /\ u.employee_id = 0
           THEN /\ resp' = resp
                /\ heap' = DictSet(heap, u.claims, claims1)
                /\ employeeCache' = l.cache
                /\ IF l.cached # NoEmployee
                   THEN /\ pc' = [pc EXCEPT ![r] = "erp"]
                        /\ call' = [call EXCEPT ![r] =
                               [gate |-> "passed", erp |-> <<"execute">>,
                                user_email |-> l.user_email,
                                odoo_employee_id |-> l.odoo_employee_id,
                                kind |-> "record", employee_info |-> l.cached,
                                hit |-> TRUE, exc |-> <<>>,
                                before |-> employeeCache]]
                   ELSE /\ pc' = [pc EXCEPT ![r] = "resolve"]
                        /\ call' = [call EXCEPT ![r] =
                               [gate |-> "passed", erp |-> <<>>,
                                user_email |-> l.user_email,
                                odoo_employee_id |-> l.odoo_employee_id,
                                kind |-> "none", employee_info |-> NoEmployee,
                                hit |-> FALSE, exc |-> <<>>,
                                before |-> employeeCache]]
           ELSE /\ resp' = resp
                /\ pc' = [pc EXCEPT ![r] = "erp"]
                /\ call' = [call EXCEPT ![r].gate = "passed", ![r].erp = <<"execute">>]
                /\ UNCHANGED <<heap, employeeCache>>
        /\ UNCHANGED <<gateVars, http, www, resolved, now, validator, tokenCache, validated,
                       jwksLoaded, jwksCacheTime, pyjwk, tok, fetchNow, res, user>>

(* A caller awaits get_employee_for_user(oauth_claims, odoo_client), up to *)
(* the cache check: a hit returns at once, a miss leaves the ERP lookups   *)
(* under way.                                                              *)
GetEmployeeForUser(r, oauth_claims) ==
    LET l == EmployeeLookup(oauth_claims, employeeCache, now)
        hit == l.cached # NoEmployee
    IN  /\ pc[r] = "idle"
        /\ employeeCache' = l.cache
        /\ pc' = [pc EXCEPT ![r] = IF hit THEN "returned" ELSE "resolve"]
        /\ call' = [call EXCEPT ![r] =
               [gate |-> "none", erp |-> <<>>, user_email |-> l.user_email,
                odoo_employee_id |-> l.odoo_employee_id,
                kind |-> IF hit THEN "record" ELSE "none",
                employee_info |-> l.cached, hit |-> hit, exc |-> <<>>,
                before |-> employeeCache]]
        /\ UNCHANGED <<gateVars, http, www, resolved, now, validator, tokenCache, heap,
                       validated, jwksLoaded, jwksCacheTime, pyjwk, tok, fetchNow, res, user,
                       tool, resp>>

(* The ERP lookups of get_employee_for_user have answered: the record      *)
(* found is cached and returned, or EmployeeNotFoundError is raised.  In   *)
(* handle_tools_call the record's id goes to execute_employee_tool, whose  *)
(* ERP calls follow, and the error is answered with 403.                   *)
ResolveReturn(r) ==
    LET c == call[r]
        st == Strategies(c.user_email, c.odoo_employee_id)
        inTool == c.gate = "passed"
    IN  /\ pc[r] = "resolve"
        /\ employeeCache' = IF st.cached
                            THEN _cache_employee(employeeCache, c.user_email,
                                                 st.employee_info, now)
                            ELSE employeeCache
        /\ resolved' = IF st.ok
                       THEN DictSet(resolved, <<c.user_email, c.odoo_employee_id>>,
                                    [employee_info |-> st.employee_info, at |-> now])
                       ELSE resolved
        /\ call' = [call EXCEPT ![r] =
               [c EXCEPT !.erp = IF inTool /\ st.ok THEN st.calls \o <<"execute">>
                                 ELSE st.calls,
                         !.kind = IF st.ok THEN "record" ELSE "error",
                         !.exc = st.exc,
                         !.employee_info = st.employee_info]]
        /\ pc' = [pc EXCEPT ![r] = IF inTool /\ st.ok THEN "erp" ELSE "returned"]
        /\ resp' = IF inTool /\ ~st.ok THEN [resp EXCEPT ![r] = 403] ELSE resp
        /\ UNCHANGED <<gateVars, http, www, now, validator, tokenCache, heap, validated,
                       jwksLoaded, jwksCacheTime, pyjwk, tok, fetchNow, res, user, tool>>

(* The gathered lookups of get_employee_for_user have ended, one of them   *)
(* with a backend error: the error is raised to the caller; in             *)
(* handle_tools_call it is no EmployeeNotFoundError and reaches            *)
(* mcp_endpoint, which answers with an internal error.                     *)
ResolveBackendError(r, failing) ==
    LET c == call[r]
        st == StrategiesBackendError(c.user_email, c.odoo_employee_id, failing)
        inTool == c.gate = "passed"
    IN  /\ pc[r] = "resolve"
        /\ GatherReached(c.user_email, c.odoo_employee_id)
        /\ call' = [call EXCEPT ![r] =
               [c EXCEPT !.erp = st.calls, !.kind = "error", !.exc = st.exc,
                         !.employee_info = st.employee_info]]
        /\ pc' = [pc EXCEPT ![r] = "returned"]
        /\ resp' = IF inTool THEN [resp EXCEPT ![r] = 500] ELSE resp
        /\ UNCHANGED <<gateVars, http, www, now, validator, tokenCache, heap, validated,
                       jwksLoaded, jwksCacheTime, pyjwk, tok, fetchNow, res, user, tool,
                       employeeCache, resolved>>

(* The ERP calls of the tool have ended and the tools/call response is     *)
(* sent.                                                                   *)
ToolsCallDone(r) ==
    /\ pc[r] = "erp"
    /\ pc' = [pc EXCEPT ![r] = "returned"]
    /\ resp' = [resp EXCEPT ![r] = 200]
    /\ UNCHANGED <<gateVars, toolVars, http, www, now, validator, tokenCache, heap, validated,
                   jwksLoaded, jwksCacheTime, pyjwk, tok, fetchNow, res, user, tool>>

(* The resource URIs a resources/read request may carry: none, the one    *)
(* read_resource knows, and another.                                       *)
ResourceUris == {"", "odoo://models", "odoo://partners"}

(* handle_resources_read(params, user) up to its await: the missing URI,   *)
(* then read_resource, whose search_read on ir.model is under way for the  *)
(* known URI and which raises ValueError for any other.  The user is not   *)
(* looked at.                                                              *)
ResourcesRead(r, uri) ==
    /\ pc[r] = "handler"
    /\ tool[r] = ""
    /\ call[r] = NoCall
    /\ IF uri = ""
       THEN /\ resp' = [resp EXCEPT ![r] = 400]
            /\ pc' = [pc EXCEPT ![r] = "returned"]
            /\ call' = call
       ELSE IF uri = "odoo://models"
       THEN /\ resp' = resp
            /\ pc' = [pc EXCEPT ![r] = "erp"]
            /\ call' = [call EXCEPT ![r].erp = <<"search_read ir.model">>]
       ELSE /\ resp' = [resp EXCEPT ![r] = 500]
            /\ pc' = [pc EXCEPT ![r] = "returned"]
            /\ call' = call
    /\ UNCHANGED <<gateVars, http, www, resolved, employeeCache, now, validator, tokenCache,
                   heap, validated, jwksLoaded, jwksCacheTime, pyjwk, tok, fetchNow, res,
                   user, tool>>

(* oauth_middleware receives a request on one of the paths it skips: the   *)
(* route handler runs without any look at the Authorization header.        *)
ExemptRequest(r, path, auth) ==
    /\ pc[r] = "idle"
    /\ path \in skip_paths
    /\ http' = [http EXCEPT ![r] = [path |-> path, auth |-> auth]]
    /\ pc' = [pc EXCEPT ![r] = "returned"]
    /\ resp' = [resp EXCEPT ![r] = 200]
    /\ body' = [body EXCEPT ![r] =
                    IF path = "/.well-known/oauth-protected-resource"
                    THEN [of |-> resource_server_metadata,
                          dict |-> to_dict(resource_server_metadata)]
                    ELSE NoBody]
    /\ UNCHANGED <<otherVars, toolVars, www, now, validator, tokenCache, heap, validated,
                   jwksLoaded, jwksCacheTime, pyjwk, tok, fetchNow, res, user, tool>>

(* A caller serializes the metadata object m: m.to_dict(). *)
ToDict(r, m) ==
    /\ pc[r] = "idle"
    /\ pc' = [pc EXCEPT ![r] = "returned"]
    /\ body' = [body EXCEPT ![r] = [of |-> m, dict |-> to_dict(m)]]
    /\ UNCHANGED <<otherVars, toolVars, www, now, validator, tokenCache, heap, validated,
                   jwksLoaded, jwksCacheTime, pyjwk, tok, fetchNow, res, user, tool, http,
                   resp>>

(* oauth_middleware receives a request on a protected path whose           *)
(* Authorization header is missing or does not start with "Bearer ".       *)
Unauthorized(r, auth) ==
    /\ pc[r] = "idle"
    /\ auth # "Bearer"
    /\ http' = [http EXCEPT ![r] = [path |-> "/mcp", auth |-> auth]]
    /\ pc' = [pc EXCEPT ![r] = "returned"]
    /\ resp' = [resp EXCEPT ![r] = 401]
    /\ www' = [www EXCEPT ![r] = BearerChallenge]
    /\ UNCHANGED <<gateVars, toolVars, now, validator, tokenCache, heap, validated,
                   jwksLoaded, jwksCacheTime, pyjwk, tok, fetchNow, res, user, tool>>

(* oauth_middleware in test mode (oauth_dev_mode or yolo_mode set): a      *)
(* request with any Bearer token gets the development user, with a new     *)
(* empty claims dict, and goes to the route handler without validation.    *)
TestModeRequest(r, token) ==
    LET o == <<"dev-user", r>>
        userNew == [user EXCEPT ![r] =
                       [sub |-> "dev-user", email |-> "dev@example.com", employee_id |-> 0,
                        scopes |-> OAUTH_SCOPES, claims |-> o]]
    IN  /\ pc[r] = "idle"
        /\ is_test_mode
        /\ http' = [http EXCEPT ![r] = [path |-> "/mcp", auth |-> "Bearer"]]
        /\ tok' = [tok EXCEPT ![r] = token]
        /\ user' = userNew
        /\ heap' = DictSet(heap, o, EmptyDict)
        /\ validated' = DictSet(validated, o, EmptyDict)
        /\ pc' = [pc EXCEPT ![r] = "handler"]
        /\ UNCHANGED <<gateVars, toolVars, www, now, validator, tokenCache, jwksLoaded,
                       jwksCacheTime, pyjwk, fetchNow, res, tool, resp>>

(* The request is over (or its handler was one that does not touch the     *)
(* claims): its locals are dropped.                                        *)
Release(r) ==
    LET resNew == [res EXCEPT ![r] = NoRes]
        userNew == [user EXCEPT ![r] = NoUser]
    IN  /\ pc[r] \in {"returned", "handler"}
        /\ pc' = [pc EXCEPT ![r] = "idle"]
        /\ res' = resNew
        /\ user' = userNew
        /\ tok' = [tok EXCEPT ![r] = <<>>]
        /\ tool' = [tool EXCEPT ![r] = ""]
        /\ resp' = [resp EXCEPT ![r] = 0]
        /\ fetchNow' = [fetchNow EXCEPT ![r] = 0]
        /\ http' = [http EXCEPT ![r] = NoHttp]
        /\ www' = [www EXCEPT ![r] = ""]
        /\ call' = [call EXCEPT ![r] = NoCall]
        /\ body' = [body EXCEPT ![r] = NoBody]
        /\ heap' = Gc(heap, tokenCache, resNew, userNew)
        /\ validated' = Gc(validated, tokenCache, resNew, userNew)
        /\ UNCHANGED <<otherVars, employeeCache, resolved, now, validator, tokenCache, jwksLoaded,
                       jwksCacheTime, pyjwk>>

----------------------------------------------------------------------------
(* execute_employee_tool *)

erpRest == <<now, validator, tokenCache, heap, validated, jwksLoaded, jwksCacheTime,
             pyjwk, pc, tok, fetchNow, res, user, tool, resp, settings, http, www,
             call, employeeCache, resolved, required, granted, access, ctxIn, ctxOut,
             body, odooClient, authCalls>>

(* execute_employee_tool(name, arguments, odoo_client, employee_id) for    *)
(* the two document tools, whole: the reads of the file, the employee and  *)
(* the directories, and the answer.                                        *)
ExecuteDocumentTool(r, name, document_id, employee_id) ==
    /\ run[r].pc = "idle"
    /\ run' = [run EXCEPT ![r] =
           [tool |-> name, pc |-> "done", arg |-> document_id,
            employee_id |-> employee_id, seen |-> <<>>,
            result |-> IF name = "download_document"
                       THEN download_document(document_id, employee_id)
                       ELSE get_document_details(document_id, employee_id)]]
    /\ UNCHANGED <<erp, erpRest>>

(* The tool's answer has been sent. *)
ToolAnswered(r) ==
    /\ run[r].pc = "done"
    /\ run' = [run EXCEPT ![r] = NoRun]
    /\ UNCHANGED <<erp, erpRest>>

(* odoo_client.search_read(model="hr.leave", domain=[["id", "=",          *)
(* request_id], ["employee_id", "=", employee_id]], fields=["state"],      *)
(* limit=1) on the database as it is now.                                  *)
SearchOwnLeave(leave, request_id, employee_id) ==
    IF request_id \in DOMAIN leave /\ leave[request_id].employee_id = employee_id
    THEN <<[state |-> leave[request_id].state]>>
    ELSE <<>>

(* The states cancel_leave_request lets through. *)
CancellableStates == {"draft", "confirm"}

(* cancel_leave_request up to the await of unlink: the ownership search    *)
(* and the two checks on its answer.                                       *)
CancelLeaveCheck(r, request_id, employee_id) ==
    LET requests == SearchOwnLeave(erp.leave, request_id, employee_id)
        error == IF requests = <<>> THEN "Leave request not found or not yours"
                 ELSE IF requests[1].state \notin CancellableStates
                      THEN "Cannot cancel approved or refused requests"
                 ELSE ""
    IN  /\ run[r].pc = "idle"
        /\ run' = [run EXCEPT ![r] =
               [tool |-> "cancel_leave_request",
                pc |-> IF error = "" THEN "checked" ELSE "done",
                arg |-> request_id, employee_id |-> employee_id, seen |-> requests,
                result |-> IF error = "" THEN <<>> ELSE [error |-> error]]]
        /\ UNCHANGED <<erp, erpRest>>

(* odoo_client.unlink(model="hr.leave", ids=[request_id]) reaches the      *)
(* database: the call is logged with what the record is at that moment.    *)
(* A record that is gone makes the call fail; for one that is no longer    *)
(* cancellable the database may refuse or delete, depending on the rights  *)
(* of the service account.                                                 *)
CancelLeaveUnlink(r, refused) ==
    LET l == run[r].arg
        there == l \in DOMAIN erp.leave
        fails == ~there \/ (refused /\ erp.leave[l].state \notin CancellableStates)
        entry == [id |-> l, by |-> run[r].employee_id, there |-> there,
                  owner |-> IF there THEN erp.leave[l].employee_id ELSE 0,
                  state |-> IF there THEN erp.leave[l].state ELSE "",
                  deleted |-> ~fails]
    IN  /\ run[r].pc = "checked"
        /\ erp' = [leave |-> IF fails THEN erp.leave
                             ELSE [x \in (DOMAIN erp.leave) \ {l} |-> erp.leave[x]],
                   unlinks |-> erp.unlinks \cup {entry}]
        /\ run' = [run EXCEPT ![r].pc = "done",
                              ![r].result = IF fails THEN [raised |-> "OdooError"]
                                            ELSE [status |-> "cancelled"]]
        /\ UNCHANGED erpRest

(* Somebody else works on the database: a manager approves a pending      *)
(* request, or a request is moved, once, to another employee.              *)
BackendDecides(l, state) ==
    /\ l \in DOMAIN erp.leave
    /\ erp.leave[l].state \in CancellableStates
    /\ erp' = [erp EXCEPT !.leave[l].state = state]
    /\ UNCHANGED <<run, erpRest>>
BackendReassigns(l, employee_id) ==
    /\ l \in DOMAIN erp.leave
    /\ erp.leave[l].employee_id = HrLeave[l].employee_id
    /\ employee_id # HrLeave[l].employee_id
    /\ erp' = [erp EXCEPT !.leave[l].employee_id = employee_id]
    /\ UNCHANGED <<run, erpRest>>

NextLeave ==
    \/ \E r \in Reqs, request_id \in (DOMAIN HrLeave) \cup {999999},
          employee_id \in {5, 9} : CancelLeaveCheck(r, request_id, employee_id)
    \/ \E r \in Reqs, refused \in BOOLEAN : CancelLeaveUnlink(r, refused)
    \/ \E r \in Reqs : ToolAnswered(r)
    \/ \E l \in DOMAIN HrLeave : BackendDecides(l, "validate")
    \/ \E l \in DOMAIN HrLeave, employee_id \in {5, 9} : BackendReassigns(l, employee_id)

(* The tools run behind one resource server. *)
InitTools == Init /\ validator = resource_server_validator(ProductionSettings)

SpecLeave == InitTools /\ [][NextLeave]_vars

NextDocs ==
    \/ \E r \in Reqs, name \in {"download_document", "get_document_details"},
          document_id \in DocumentIds, employee_id \in ToolEmployeeIds :
           ExecuteDocumentTool(r, name, document_id, employee_id)
    \/ \E r \in Reqs : ToolAnswered(r)

SpecDocs == InitTools /\ [][NextDocs]_vars

----------------------------------------------------------------------------
(* OdooClient.authenticate *)

clientRest == <<now, validator, tokenCache, heap, validated, jwksLoaded, jwksCacheTime,
                pyjwk, pc, tok, fetchNow, res, user, tool, resp, settings, http, www,
                call, employeeCache, resolved, required, granted, access, ctxIn, ctxOut,
                body, erpVars>>

(* Variant: a lock that never makes a caller wait. *)
UidLockAlwaysFree(client) == TRUE

(* `async with self._uid_lock`: the lock can be taken at once. *)
UidLockFree(client) == client._uid_lock = 0

(* The caller holds the lock and finds no uid: the handshake RPC is sent. *)
SendHandshake(c) ==
    /\ odooClient.rpcs < MaxHandshakes
    /\ odooClient' = [odooClient EXCEPT !._uid_lock = c, !.rpcs = @ + 1]
    /\ authCalls' = [authCalls EXCEPT ![c].pc = "rpc"]

(* authenticate() is called: the fast path returns the uid; otherwise the  *)
(* caller takes the lock if it is free and sends the handshake, or waits.  *)
Authenticate(c) ==
    /\ authCalls[c].pc = "idle"
    /\ IF odooClient._uid # 0
       THEN /\ authCalls' = [authCalls EXCEPT ![c].pc = "done", ![c].ret = odooClient._uid]
            /\ UNCHANGED odooClient
       ELSE IF UidLockFree(odooClient)
       THEN SendHandshake(c)
       ELSE /\ authCalls' = [authCalls EXCEPT ![c].pc = "waiting"]
            /\ UNCHANGED odooClient
    /\ UNCHANGED clientRest

(* A waiting caller gets the lock and checks the uid again. *)
LockAcquired(c) ==
    /\ authCalls[c].pc = "waiting"
    /\ UidLockFree(odooClient)
    /\ IF odooClient._uid # 0
       THEN /\ authCalls' = [authCalls EXCEPT ![c].pc = "done", ![c].ret = odooClient._uid]
            /\ UNCHANGED odooClient
       ELSE SendHandshake(c)
    /\ UNCHANGED clientRest

(* Variant: the lock stays with the caller whose handshake failed. *)
HandshakeReturnKeepsLock(c, answer) ==
    LET raised == CASE answer.kind = "uid" -> OdooErrorClass("OdooAuthenticationError")
                    [] answer.kind = "fault" -> map_odoo_fault(answer.value)
                    [] answer.kind = "error" -> map_connection_error(answer.value)
        ok == answer.kind = "uid" /\ answer.value # 0
    IN  /\ authCalls[c].pc = "rpc"
        /\ odooClient' = [odooClient EXCEPT
               !._uid = IF answer.kind = "uid" THEN answer.value ELSE @,
               !._uid_lock = IF ok THEN 0 ELSE @,
               !.failed = IF ok THEN @ ELSE @ + 1]
        /\ authCalls' = [authCalls EXCEPT ![c] =
               [pc |-> "done", ret |-> IF ok THEN answer.value ELSE 0,
                exc |-> IF ok THEN NoRaise ELSE raised, from |-> answer]]
        /\ UNCHANGED clientRest

(* The handshake of c is answered: the uid (or False) is stored and        *)
(* returned (OdooAuthenticationError for a falsy one); a Fault or a        *)
(* connection error is mapped by _run_in_executor and raised.  The lock    *)
(* is released in every case.                                              *)
HandshakeReturn(c, answer) ==
    LET raised == CASE answer.kind = "uid" -> OdooErrorClass("OdooAuthenticationError")
                    [] answer.kind = "fault" -> map_odoo_fault(answer.value)
                    [] answer.kind = "error" -> map_connection_error(answer.value)
        ok == answer.kind = "uid" /\ answer.value # 0
    IN  /\ authCalls[c].pc = "rpc"
        /\ odooClient' = [odooClient EXCEPT
               !._uid = IF answer.kind = "uid" THEN answer.value ELSE @,
               !._uid_lock = 0,
               !.failed = IF ok THEN @ ELSE @ + 1]
        /\ authCalls' = [authCalls EXCEPT ![c] =
               [pc |-> "done", ret |-> IF ok THEN answer.value ELSE 0,
                exc |-> IF ok THEN NoRaise ELSE raised, from |-> answer]]
        /\ UNCHANGED clientRest

(* The caller goes on and may call authenticate() again. *)
AuthDone(c) ==
    /\ authCalls[c].pc = "done"
    /\ authCalls' = [authCalls EXCEPT ![c] = NoAuthCall]
    /\ UNCHANGED <<odooClient, clientRest>>

NextClient ==
    \/ \E c \in Callers : Authenticate(c)
    \/ \E c \in Callers : LockAcquired(c)
    \/ \E c \in Callers, answer \in HandshakeOutcomes : HandshakeReturn(c, answer)
    \/ \E c \in Callers : AuthDone(c)

SpecClient == Init /\ [][NextClient]_vars

(* The same with what the event loop and the executor guarantee: a         *)
(* handshake RPC in flight is answered or fails, and asyncio.Lock wakes    *)
(* its waiters in turn, so a caller waiting for a lock that is released    *)
(* again and again gets it.                                                *)
SpecClientLive ==
    /\ Init /\ [][NextClient]_vars
    /\ \A c \in Callers :
          /\ WF_vars(\E answer \in HandshakeOutcomes : HandshakeReturn(c, answer))
          /\ SF_vars(LockAcquired(c))

(* One caller, every answer the backend can give to its handshake. *)
NextFaults ==
    \/ Authenticate(1)
    \/ \E answer \in AllOutcomes : HandshakeReturn(1, answer)
    \/ AuthDone(1)

SpecFaults == Init /\ [][NextFaults]_vars

----------------------------------------------------------------------------
(* The scope gate on its own *)

valVars == <<now, validator, tokenCache, heap, validated, jwksLoaded, jwksCacheTime,
             pyjwk, pc, tok, fetchNow, res, user, tool, resp, settings, http, www,
             call, employeeCache, resolved, odooClient, authCalls, body, erpVars>>

ScopeWords == {"odoo.read", "odoo.write", "odoo.hr.profile"}
ScopeLists == UNION {[1..n -> ScopeWords] : n \in 0..MaxScopes}

(* The dependency that require_scopes builds, run on a request whose     *)
(* user holds user_scopes:                                                 *)
(* the status it ends with (200 when it returns the user).                 *)
require_scopes(required_scopes, hasUser, user_scopes) ==
    IF ~hasUser THEN 401
    ELSE IF AnyIn(required_scopes, user_scopes) THEN 200
    ELSE 403

InitGate ==
    /\ validator = TokenValidator(GOOGLE, CLIENT_ID, "")
    /\ ValidatorInit
    /\ required \in ScopeLists
    /\ granted \in ScopeLists
    /\ access = NoAccess
    /\ CtxIdle
    /\ settings = ProductionSettings

CheckScopeAccess ==
    /\ access.fn = "none"
    /\ access' = [fn |-> "check_scope_access", status |-> 0,
                  result |-> check_scope_access(required, granted)]
    /\ UNCHANGED <<valVars, required, granted, ctxIn, ctxOut>>

RequireScopes(hasUser) ==
    /\ access.fn = "none"
    /\ access' = [fn |-> "require_scopes",
                  status |-> require_scopes(required, hasUser, granted),
                  result |-> FALSE]
    /\ UNCHANGED <<valVars, required, granted, ctxIn, ctxOut>>

NextGate ==
    \/ CheckScopeAccess
    \/ \E hasUser \in BOOLEAN : RequireScopes(hasUser)

SpecGate == InitGate /\ [][NextGate]_vars

----------------------------------------------------------------------------
(* The user context extractor on its own *)

(* A claims dict from optional values: each argument is <<>> for a key the *)
(* dict lacks, or <<v>> for a key it maps to v.                            *)
ClaimsDict(iss, sub, scope, email, email_verified, odoo_employee_id) ==
    LET opt == [iss |-> iss, sub |-> sub, scope |-> scope, email |-> email,
                email_verified |-> email_verified,
                odoo_employee_id |-> odoo_employee_id]
    IN  [k \in {x \in DOMAIN opt : opt[x] # <<>>} |-> opt[k][1]]

(* The scope strings of the claims handed to the extractor: none, the      *)
(* empty string, a blank string, the standard OIDC scopes, custom scopes.   *)
ContextScopes ==
    {<<>>, << <<>> >>, << <<" ">> >>,
     << <<"openid", " ", "email", " ", "profile">> >>,
     << <<"openid", " ", "custom.scope">> >>,
     << <<"odoo.read", " ", " ", "odoo.write">> >>}

ContextEmails ==
    {<<>>, <<"">>, <<None>>, <<"alice@keboola.com">>, <<"Alice@keboola.com">>,
     <<"bob@example.com">>, <<"eve@notkeboola.com">>}

ContextClaims ==
    {ClaimsDict(iss, sub, scope, email, email_verified, odoo_employee_id) :
        iss \in {<<>>, <<GOOGLE>>, <<CUSTOM>>, <<OTHER_ISS>>},
        sub \in {<<>>, <<"s-1">>},
        scope \in ContextScopes,
        email \in ContextEmails,
        email_verified \in {<<>>, <<TRUE>>, <<FALSE>>},
        odoo_employee_id \in {<<>>, <<7>>}}

InitContext ==
    /\ validator = TokenValidator(GOOGLE, CLIENT_ID, "")
    /\ ValidatorInit
    /\ required = <<>>
    /\ granted = <<>>
    /\ access = NoAccess
    /\ ctxIn \in ContextClaims
    /\ ctxOut = <<>>
    /\ settings = ProductionSettings

(* user = extract_user_context(claims) *)
ExtractUserContext ==
    /\ ctxOut = <<>>
    /\ ctxOut' = <<extract_user_context(ctxIn, NoRef)>>
    /\ UNCHANGED <<valVars, required, granted, access, ctxIn>>

NextContext == ExtractUserContext

SpecContext == InitContext /\ [][NextContext]_vars

----------------------------------------------------------------------------
(* Specifications of the validator and the request path *)

(* Concurrent validations while time passes. *)
Next ==
    \/ Tick
    \/ \E r \in Reqs, token \in RaceTokensFor(validator), netUp \in BOOLEAN :
           ValidateSync(r, token, netUp)
    \/ \E r \in Reqs, token \in RaceTokensFor(validator), netUp \in BOOLEAN :
           MiddlewareStart(r, token, netUp)
    \/ \E r \in Reqs, netUp \in BOOLEAN : TokeninfoReturn(r, netUp)
    \/ \E r \in Reqs, fetched \in BOOLEAN, netUp \in BOOLEAN : JwksReturn(r, fetched, netUp)
    \/ \E r \in Reqs : Cancel(r)
    \/ \E r \in Reqs : Release(r)

Spec == Init /\ [][Next]_vars

(* One request after the other, every token the validator may be handed. *)
NextTokens ==
    \/ \E token \in TokensFor(validator), netUp \in BOOLEAN : ValidateSync(1, token, netUp)
    \/ \E token \in TokensFor(validator), netUp \in BOOLEAN : MiddlewareStart(1, token, netUp)
    \/ \E netUp \in BOOLEAN : TokeninfoReturn(1, netUp)
    \/ \E fetched \in BOOLEAN, netUp \in BOOLEAN : JwksReturn(1, fetched, netUp)
    \/ Cancel(1)
    \/ Release(1)

SpecTokens == Init /\ [][NextTokens]_vars

(* POST /mcp requests, one after the other, with the tokens the validator *)
(* accepts: one whose user gets scopes, and one whose user gets none (a    *)
(* Google token without a verified email, a custom token without a scope   *)
(* claim).                                                                 *)
McpTokensFor(v) ==
    IF v.is_google
    THEN {GJwt(GBase), GJwt([GBase EXCEPT !.email_verified = FALSE])}
    ELSE {CJwt(CBase), CJwt(Without(CBase, "scope"))}

NextMcp ==
    \/ \E token \in McpTokensFor(validator), netUp \in BOOLEAN :
           MiddlewareStart(1, token, netUp)
    \/ \E fetched \in BOOLEAN, netUp \in BOOLEAN : JwksReturn(1, fetched, netUp)
    \/ \E name \in CalledTools : ToolsCall(1, name)
    \/ ResolveReturn(1)
    \/ \E uri \in ResourceUris : ResourcesRead(1, uri)
    \/ ToolsCallDone(1)
    \/ Release(1)

SpecMcp == Init /\ [][NextMcp]_vars

(* A second TokenValidator of the same process, constructed for another    *)
(* audience, takes the calls from now on.  Its own key set is not loaded;  *)
(* the PyJWKClient of _jwks_clients is shared when the key endpoint is the *)
(* same, and _token_cache is the module's, shared by every validator.      *)
SecondValidators ==
    {TokenValidator(GOOGLE, OTHER_AUD, ""), TokenValidator(CUSTOM, OTHER_AUD, "")}
SecondValidator(w) ==
    /\ validator \in Validators
    /\ \A r \in Reqs : pc[r] = "idle"
    /\ validator' = w
    /\ pyjwk' = IF w.jwks_uri = validator.jwks_uri THEN pyjwk ELSE "absent"
    /\ jwksLoaded' = FALSE
    /\ jwksCacheTime' = 0
    /\ UNCHANGED <<gateVars, toolVars, http, www, now, tokenCache, heap, validated, pc, tok,
                   fetchNow, res, user, tool, resp>>

NextValidators ==
    \/ NextTokens
    \/ \E w \in SecondValidators : SecondValidator(w)

SpecValidators == Init /\ [][NextValidators]_vars

(* Concurrent requests through the middleware and tools/call, their        *)
(* validations suspended at the same time.                                 *)
NextRace ==
    \/ \E r \in Reqs, token \in RaceTokensFor(validator), netUp \in BOOLEAN :
           MiddlewareStart(r, token, netUp)
    \/ \E r \in Reqs, netUp \in BOOLEAN : TokeninfoReturn(r, netUp)
    \/ \E r \in Reqs, fetched \in BOOLEAN, netUp \in BOOLEAN : JwksReturn(r, fetched, netUp)
    \/ \E r \in Reqs : ToolsCall(r, "get_my_profile")
    \/ \E r \in Reqs : ResolveReturn(r)
    \/ \E r \in Reqs : ToolsCallDone(r)
    \/ \E r \in Reqs : Release(r)

SpecRace == Init /\ [][NextRace]_vars

(* The process as http_server.py starts it: the settings read from the    *)
(* environment, the validator the module-level resource_server builds from *)
(* them.                                                                   *)
BootSettings ==
    {[ProductionSettings EXCEPT !.oauth_provider = provider,
                                !.oauth_client_id = client_id,
                                !.oauth_authorization_server = server] :
        provider \in {"google", "Google", "custom"},
        client_id \in {CLIENT_ID, None},
        server \in {GOOGLE, CUSTOM}}

InitBoot ==
    /\ settings \in BootSettings
    /\ validator = resource_server_validator(settings)
    /\ ValidatorInit
    /\ GateIdle

SpecBoot == InitBoot /\ [][NextTokens]_vars

(* One request after the other through the middleware and tools/call,     *)
(* while time passes.                                                      *)
NextCache ==
    \/ Tick
    \/ \E token \in RaceTokensFor(validator), netUp \in BOOLEAN : ValidateSync(1, token, netUp)
    \/ \E token \in RaceTokensFor(validator), netUp \in BOOLEAN : MiddlewareStart(1, token, netUp)
    \/ \E netUp \in BOOLEAN : TokeninfoReturn(1, netUp)
    \/ \E fetched \in BOOLEAN, netUp \in BOOLEAN : JwksReturn(1, fetched, netUp)
    \/ Cancel(1)
    \/ \E name \in CalledTools : ToolsCall(1, name)
    \/ ResolveReturn(1)
    \/ ToolsCallDone(1)
    \/ Release(1)

SpecCache == Init /\ [][NextCache]_vars

(* The same, with what the event loop guarantees: time passes, and a       *)
(* request under way is resumed and runs to its end.  That another         *)
(* request arrives is guaranteed by nothing.                               *)
RequestProceeds ==
    \/ \E netUp \in BOOLEAN : TokeninfoReturn(1, netUp)
    \/ \E fetched \in BOOLEAN, netUp \in BOOLEAN : JwksReturn(1, fetched, netUp)
    \/ ResolveReturn(1)
    \/ ToolsCallDone(1)
    \/ Release(1)

SpecCacheLive ==
    Init /\ [][NextCache]_vars /\ WF_vars(Tick) /\ WF_vars(RequestProceeds)

(* Requests of every kind through oauth_middleware, under each setting of  *)
(* the test modes: exempt paths, missing and non-Bearer Authorization      *)
(* headers, Bearer tokens, and tools/call behind them.                     *)
AuthSchemes == {"", "Basic", "Bearer"}

InitHttp ==
    /\ validator \in Validators
    /\ ValidatorInit
    /\ GateIdle
    /\ settings \in SettingsSet

NextHttp ==
    \/ Tick
    \/ \E path \in skip_paths, auth \in AuthSchemes : ExemptRequest(1, path, auth)
    \/ \E auth \in AuthSchemes : Unauthorized(1, auth)
    \/ \E token \in RaceTokensFor(validator) : TestModeRequest(1, token)
    \/ \E token \in RaceTokensFor(validator), netUp \in BOOLEAN : MiddlewareStart(1, token, netUp)
    \/ \E netUp \in BOOLEAN : TokeninfoReturn(1, netUp)
    \/ \E fetched \in BOOLEAN, netUp \in BOOLEAN : JwksReturn(1, fetched, netUp)
    \/ Cancel(1)
    \/ \E name \in CalledTools : ToolsCall(1, name)
    \/ ResolveReturn(1)
    \/ ToolsCallDone(1)
    \/ Release(1)

SpecHttp == InitHttp /\ [][NextHttp]_vars

(* The discovery endpoint and the other exempt paths under every start-up  *)
(* configuration, and to_dict on metadata objects of every shape.          *)
MetadataObjects ==
    [resource : {RESOURCE},
     authorization_servers : {<<>>, <<GOOGLE>>, <<GOOGLE, CUSTOM>>},
     scopes_supported : {<<>>, <<"openid", "email", "profile">>},
     bearer_methods_supported : {<<>>, <<"header">>},
     resource_documentation : {None, "", "https://odoo-mcp.keboola.com/docs"},
     resource_signing_alg_values_supported : {<<>>, <<"RS256", "ES256">>}]

NextDiscovery ==
    \/ \E path \in skip_paths, auth \in AuthSchemes : ExemptRequest(1, path, auth)
    \/ \E auth \in AuthSchemes : Unauthorized(1, auth)
    \/ \E m \in MetadataObjects : ToDict(1, m)
    \/ Release(1)

SpecDiscovery == InitBoot /\ [][NextDiscovery]_vars

(* Concurrent callers of get_employee_for_user while time passes. *)
ResolverClaims ==
    {ClaimsDict(<<CUSTOM>>, <<>>, <<>>, <<"bob@example.com">>, <<>>, <<>>),
     ClaimsDict(<<CUSTOM>>, <<>>, <<>>, <<"bob@example.com">>, <<>>, <<7>>),
     ClaimsDict(<<CUSTOM>>, <<>>, <<>>, <<"alice@keboola.com">>, <<>>, <<>>),
     ClaimsDict(<<CUSTOM>>, <<>>, <<>>, <<"Alice@keboola.com">>, <<>>, <<>>),
     ClaimsDict(<<CUSTOM>>, <<"u-1">>, <<>>, <<>>, <<>>, <<>>),
     ClaimsDict(<<CUSTOM>>, <<>>, <<>>, <<>>, <<>>, <<7>>)}

InitResolve ==
    /\ validator = TokenValidator(CUSTOM, RESOURCE, "")
    /\ ValidatorInit
    /\ GateIdle
    /\ settings = ProductionSettings

NextResolve ==
    \/ Tick
    \/ \E r \in Reqs, oauth_claims \in ResolverClaims : GetEmployeeForUser(r, oauth_claims)
    \/ \E r \in Reqs : ResolveReturn(r)
    \/ \E r \in Reqs : Release(r)

SpecResolve == InitResolve /\ [][NextResolve]_vars

(* One caller of get_employee_for_user after the other, with claims for    *)
(* every strategy: an id claim the backend holds or not, an email with     *)
(* one, several or no employee, a login-linked account, a name that        *)
(* matches, does not match, or is too short to be searched.                *)
StrategyClaims ==
    {ClaimsDict(<<CUSTOM>>, <<"u-1">>, <<>>, <<>>, <<>>, <<>>),
     ClaimsDict(<<CUSTOM>>, <<"u-1">>, <<>>, <<>>, <<>>, <<7>>),
     ClaimsDict(<<CUSTOM>>, <<>>, <<>>, <<>>, <<>>, <<99>>),
     ClaimsDict(<<CUSTOM>>, <<>>, <<>>, <<"dup@example.com">>, <<>>, <<>>),
     ClaimsDict(<<CUSTOM>>, <<>>, <<>>, <<"carol@example.com">>, <<>>, <<>>),
     ClaimsDict(<<CUSTOM>>, <<>>, <<>>, <<"john.doe@example.com">>, <<>>, <<>>),
     ClaimsDict(<<CUSTOM>>, <<>>, <<>>, <<"no_body@example.com">>, <<>>, <<99>>)}

NextStrategies ==
    \/ Tick
    \/ \E oauth_claims \in StrategyClaims : GetEmployeeForUser(1, oauth_claims)
    \/ ResolveReturn(1)
    \/ Release(1)

SpecStrategies == InitResolve /\ [][NextStrategies]_vars

(* The same callers against a backend whose searches may fail. *)
NextBackendErrors ==
    \/ Tick
    \/ \E oauth_claims \in StrategyClaims : GetEmployeeForUser(1, oauth_claims)
    \/ ResolveReturn(1)
    \/ \E failing \in GatheredSearches : ResolveBackendError(1, failing)
    \/ Release(1)

SpecBackendErrors == InitResolve /\ [][NextBackendErrors]_vars

----------------------------------------------------------------------------
(* Properties of the token validator *)

(* The token a cache key was computed from, and the request's call of      *)
(* validation in a step: it leaves "idle".                                 *)
TokenOf(h) == h[2]
Starts(r) == pc[r] = "idle" /\ pc'[r] # "idle"

(* C1: once validation has succeeded for a token and the token's cache     *)
(* entry has not expired, a further validate or validate_async of the      *)
(* token returns claims equal to the first result and makes no network     *)
(* call.                                                                   *)
C1_CacheHitReturnsFirstResult ==
    [][\A r \in Reqs :
          (Starts(r) /\ CachedObj(tokenCache, tok'[r], now) # NoRef)
              => /\ res'[r].kind = "claims"
                 /\ res'[r].net = 0
                 /\ res'[r].ret = validated[CachedObj(tokenCache, tok'[r], now)]]_vars

(* What makes a token one that cannot be verified, whatever the network    *)
(* does: a segment count other than three, a header that does not parse,   *)
(* a signature the issuer's published key did not make.                    *)
IssuerMade(v, token) ==
    /\ token[1].kid \in DOMAIN JwksAt(v.jwks_uri)
    /\ token[3] = SignedBy(JwksAt(v.jwks_uri)[token[1].kid])
Unverifiable(v, token) ==
    IF Len(token) # 3 THEN Len(token) = 2 \/ ~v.is_google
    ELSE ~token[1].wellformed \/ ~IssuerMade(v, token)

(* C2: for a token that cannot be verified (wrong segment count, garbage,  *)
(* bad signature, or the key or verification endpoint unreachable),        *)
(* validate and validate_async return no claims, and the exception that    *)
(* reaches the caller is a TokenValidationError or one of its subclasses,  *)
(* never another type.                                                     *)
C2_UnverifiableRaisesValidationError ==
    \A r \in Reqs :
        /\ (res[r].kind = "claims" /\ ~res[r].hit) => ~Unverifiable(validator, tok[r])
        /\ res[r].kind = "error" => res[r].exc \in TokenValidationErrors

(* The RSA/ECDSA signature algorithms. *)
RsaEcdsa == {"RS256", "RS384", "RS512", "ES256", "ES384", "ES512"}
OutsideAllowList(token) ==
    Len(token) = 3 /\ token[1].wellformed /\ token[1].alg \notin RsaEcdsa

(* C3: a structured token whose header names an algorithm outside the      *)
(* RSA/ECDSA allow-list ("none", HS256, ...) is rejected by validation on  *)
(* the federated and on the custom branch, and is never in the token       *)
(* cache.                                                                  *)
C3_DisallowedAlgorithmRejected ==
    /\ \A r \in Reqs : OutsideAllowList(tok[r]) => res[r].kind # "claims"
    /\ \A h \in DOMAIN tokenCache : ~OutsideAllowList(TokenOf(h))

(* A token signed HS256 or "none" went through jwt.decode with the         *)
(* issuer's key in hand and was refused.                                   *)
C3_Witness ==
    \E r \in Reqs :
        /\ OutsideAllowList(tok[r])
        /\ tok[r][1].alg = "HS256"
        /\ tok[r][3] = HmacWith(JwksAt(validator.jwks_uri)[tok[r][1].kid])
        /\ res[r].kind = "error" /\ res[r].exc = "InvalidTokenError"
        /\ res[r].up
        /\ _get_token_hash(tok[r]) \notin DOMAIN tokenCache

(* The token's own expiry: the exp claim of a structured token, the        *)
(* deadline tokeninfo's expires_in implies for an opaque one.              *)
OwnExpiry(token) ==
    IF Len(token) = 3 THEN token[2].exp ELSE OpaqueDeadline(token)

(* C4: the expiry of a cache entry is never later than the token's own     *)
(* expiry, for structured and for opaque tokens.                           *)
C4_CacheExpiryWithinTokenExpiry ==
    \A h \in DOMAIN tokenCache : tokenCache[h].expiry <= OwnExpiry(TokenOf(h))

(* C5: a cache entry's expiry is at most 300 seconds after the time of the *)
(* validation that stored it, so no claims are served from the cache more  *)
(* than 300 seconds after they were verified: a write of an entry sets an  *)
(* expiry within 300 seconds of the current time, and a call is answered   *)
(* from an entry only before the entry's expiry.                           *)
C5_CacheExpiryWithinTtl ==
    [][/\ \A h \in DOMAIN tokenCache' :
             (h \notin DOMAIN tokenCache \/ tokenCache'[h] # tokenCache[h])
                 => tokenCache'[h].expiry <= now + 300
       /\ \A r \in Reqs :
             (res'[r].hit /\ ~res[r].hit)
                 => /\ _get_token_hash(tok'[r]) \in DOMAIN tokenCache
                    /\ now < tokenCache[_get_token_hash(tok'[r])].expiry]_vars

(* An entry of a token that lives longer than the ceiling, stored with the *)
(* ceiling as its expiry, and a request served from such an entry.         *)
C5_Witness ==
    \E r \in Reqs :
        /\ res[r].kind = "claims" /\ res[r].hit
        /\ _get_token_hash(tok[r]) \in DOMAIN tokenCache
        /\ tokenCache[_get_token_hash(tok[r])].expiry = StartTime + 300
        /\ now > StartTime
        /\ OwnExpiry(tok[r]) > StartTime + 300

(* C6: every claims map validation returns has an issuer, a subject, an    *)
(* expiry and an audience; a token that lacks one of them is rejected.     *)
C6_ReturnedClaimsHaveCoreClaims ==
    \A r \in Reqs :
        res[r].kind = "claims"
            => /\ {"iss", "sub", "exp", "aud"} \subseteq DOMAIN res[r].ret
               /\ res[r].ret.sub # None
               /\ Len(tok[r]) = 3 => {"iss", "sub", "exp", "aud"} \subseteq DOMAIN tok[r][2]

(* What is wrong with a structured token the issuer signed with an allowed *)
(* algorithm and that carries every claim its branch requires.             *)
Checked(v, token) ==
    /\ Len(token) = 3 /\ token[1].wellformed /\ IssuerMade(v, token)
    /\ token[1].alg \in (IF v.is_google THEN {"RS256"} ELSE RsaEcdsa)
    /\ {"exp", "iss", "aud"} \subseteq DOMAIN token[2]
    /\ v.is_google => "email" \in DOMAIN token[2]
Expired(token, t) == token[2].exp <= t
IssuerMismatch(v, token) == token[2].iss # v.issuer
AudienceMismatch(v, token) == token[2].aud # v.audience
AzpMismatch(v, token) ==
    /\ v.authorized_party # ""
    /\ "azp" \in DOMAIN token[2]
    /\ token[2].azp # v.authorized_party
BadFormat(v, token) ==
    IF Len(token) # 3 THEN Len(token) = 2 \/ ~v.is_google ELSE ~token[1].wellformed
BadSignature(v, token) ==
    /\ Len(token) = 3 /\ token[1].wellformed /\ token[1].alg \in RsaEcdsa
    /\ token[1].kid \in DOMAIN JwksAt(v.jwks_uri)
    /\ ~IssuerMade(v, token)

(* C7: with the network answering, validation raises TokenExpiredError for *)
(* an expired token, InvalidIssuerError for an issuer mismatch,            *)
(* InvalidAudienceError for an audience mismatch, and InvalidTokenError    *)
(* for a bad format or signature and for an authorized-party claim that is *)
(* present but differs from the configured authorized_party.               *)
C7_ErrorKindNamesTheViolation ==
    \A r \in Reqs :
        (res[r].kind = "error" /\ res[r].up) =>
            LET v == validator
                token == tok[r]
            IN  /\ BadFormat(v, token) => res[r].exc = "InvalidTokenError"
                /\ BadSignature(v, token) => res[r].exc = "InvalidTokenError"
                /\ (Checked(v, token) /\ Expired(token, now))
                       => res[r].exc = "TokenExpiredError"
                /\ (Checked(v, token) /\ ~Expired(token, now) /\ IssuerMismatch(v, token))
                       => res[r].exc = "InvalidIssuerError"
                /\ (Checked(v, token) /\ ~Expired(token, now) /\ ~IssuerMismatch(v, token)
                        /\ AudienceMismatch(v, token))
                       => res[r].exc = "InvalidAudienceError"
                /\ (Checked(v, token) /\ ~Expired(token, now) /\ ~IssuerMismatch(v, token)
                        /\ ~AudienceMismatch(v, token) /\ AzpMismatch(v, token))
                       => res[r].exc = "InvalidTokenError"

(* The only change a failing call may make to the cache: the removal of    *)
(* the expired entry of its own token.                                     *)
OwnExpiredEntryRemoved(token) ==
    LET h == _get_token_hash(token)
    IN  /\ h \in DOMAIN tokenCache
        /\ ~(now < tokenCache[h].expiry)
        /\ tokenCache' = Without(tokenCache, h)

(* C8: a validate or validate_async call that ends in an error, or is      *)
(* cancelled or times out at a suspension point, adds no cache entry and   *)
(* changes no existing one; it may only remove its own token's expired     *)
(* entry.  Every step of a call that is not its successful return leaves   *)
(* the cache, and the claims the cache holds, as they were, up to that     *)
(* removal.                                                                *)
C8_FailedCallLeavesCache ==
    [][\A r \in Reqs :
          (pc'[r] # pc[r] /\ res'[r].kind # "claims")
              => /\ tokenCache' = tokenCache \/ OwnExpiredEntryRemoved(tok'[r])
                 /\ \A h \in DOMAIN tokenCache' : 
                        heap'[tokenCache'[h].obj] = heap[tokenCache[h].obj]]_vars

(* A cancelled call and a call that raised, next to a cache that holds an  *)
(* entry, the expired entry of the failed call's token gone.               *)
C8_Witness ==
    \E r1 \in Reqs, r2 \in Reqs :
        /\ res[r1].kind = "cancelled"
        /\ res[r2].kind = "error" /\ res[r2].exc = "TokenExpiredError"
        /\ _get_token_hash(tok[r2]) \notin DOMAIN tokenCache
        /\ DOMAIN tokenCache # {}

(* C9: validated claims are never mutated after their creation: building   *)
(* the user context, handling tools/call and resolving the employee leave  *)
(* every claims map as validation made it, so a later cache hit returns    *)
(* the map originally validated.                                           *)
C9_ClaimsNeverMutated ==
    /\ \A o \in DOMAIN heap : heap[o] = validated[o]
    /\ \A h \in DOMAIN tokenCache : heap[tokenCache[h].obj] = validated[tokenCache[h].obj]

(* A step of r's validation call: it starts, resumes or ends. *)
ValidationStep(r) == pc[r] \in {"idle", "tokeninfo", "jwks"} /\ pc'[r] # pc[r]
Suspended(r) == pc[r] \in {"tokeninfo", "jwks"}

(* C30: with validate_async calls interleaving at their suspension points, *)
(* the entry of a token, and the claims it holds, change only in a step of *)
(* a validation of that token; and once no validation of a token is        *)
(* suspended, the token's entry holds the claims a validation of it        *)
(* returns.                                                                *)
C30_RacingFillsKeepEntries ==
    [][/\ \A h \in DOMAIN tokenCache :
             (\/ h \notin DOMAIN tokenCache'
              \/ tokenCache'[h] # tokenCache[h]
              \/ heap'[tokenCache'[h].obj] # heap[tokenCache[h].obj])
             => \E r \in Reqs : ValidationStep(r) /\ _get_token_hash(tok'[r]) = h
       /\ \A h \in DOMAIN tokenCache' :
             (~\E r \in Reqs : Suspended(r)' /\ _get_token_hash(tok'[r]) = h)
             => heap'[tokenCache'[h].obj] = validated'[tokenCache'[h].obj]]_vars

(* What tokeninfo says about an opaque token at time t: the call succeeds, *)
(* aud (azp when aud is absent) is the validator's audience, expires_in    *)
(* is absent or positive.                                                  *)
TokeninfoAccepts(v, token, t) ==
    LET info == TokenInfo(token, t)
    IN  /\ info.status = 200
        /\ IF "aud" \in DOMAIN info.body THEN info.body.aud = v.audience
           ELSE "azp" \in DOMAIN info.body /\ info.body.azp = v.audience
        /\ "expires_in" \in DOMAIN info.body => info.body.expires_in > 0

(* C32: a token that is not three segments is accepted only by a validator *)
(* of the federated provider, and only when tokeninfo accepts it; with a   *)
(* custom issuer it always fails as malformed (InvalidTokenError).         *)
C32_NonJwtOpaqueOnlyForFederated ==
    \A r \in Reqs :
        (tok[r] # <<>> /\ Len(tok[r]) # 3) =>
            /\ res[r].kind = "claims" =>
                   validator.is_google /\ TokeninfoAccepts(validator, tok[r], now)
            /\ (res[r].kind = "error" /\ ~validator.is_google) =>
                   res[r].exc = "InvalidTokenError"
            /\ (pc[r] \in {"returned", "handler"} /\ ~validator.is_google) =>
                   res[r].kind = "error"

(* The file lies in a category folder that is not restricted and whose    *)
(* parent is the employee's own folder, the one that carries their name.   *)
InOwnCategoryFolder(document_id, employee_id) ==
    /\ document_id \in DOMAIN DmsFile
    /\ ReadEmployee(employee_id) # <<>>
    /\ LET d == DmsFile[document_id].directory_id
       IN  /\ d \in DOMAIN DmsDirectory
           /\ DmsDirectory[d].name \notin DMS_RESTRICTED_FOLDERS
           /\ DmsDirectory[d].parent_id \in DOMAIN DmsDirectory
           /\ DmsDirectory[DmsDirectory[d].parent_id].name
                  = ReadEmployee(employee_id)[1].name
DocumentToolDone(r) ==
    run[r].pc = "done" /\ run[r].tool \in {"download_document", "get_document_details"}

(* C33: download_document and get_document_details answer with a file's    *)
(* content or metadata only when the file lies in a non-restricted         *)
(* category folder under the authenticated employee's own folder, and      *)
(* with an error otherwise.                                                *)
C33_DocumentsOnlyFromOwnFolder ==
    \A r \in Reqs :
        DocumentToolDone(r) =>
            ("error" \notin DOMAIN run[r].result
                <=> InOwnCategoryFolder(run[r].arg, run[r].employee_id))

(* C34: every unlink cancel_leave_request issues reaches a leave request   *)
(* that, at that moment, belongs to the calling employee and is in state   *)
(* draft or confirm, also when the request was changed in the backend      *)
(* after the ownership check.                                              *)
C34_UnlinkOnlyOwnPendingLeave ==
    \A unlink \in erp.unlinks :
        unlink.there =>
            /\ unlink.owner = unlink.by
            /\ unlink.state \in CancellableStates

(* C35: the claims a validator returns as valid carry its own issuer and   *)
(* its own audience, also when another validator of the process filled the *)
(* token cache.                                                            *)
C35_CachedClaimsOnlyForOwnValidator ==
    \A r \in Reqs :
        res[r].kind = "claims" =>
            /\ res[r].ret.iss = validator.issuer
            /\ res[r].ret.aud = validator.audience

(* C37: a request whose principal holds no scope at all has issued no ERP  *)
(* call, in tools/call and in resources/read.                              *)
C37_NoErpCallWithoutScopes ==
    \A r \in Reqs :
        (user[r] # NoUser /\ user[r].scopes = <<>>) => call[r].erp = <<>>

(* The handshake of caller c is answered in this step, and has failed: a  *)
(* falsy uid, a fault or a connection error.                               *)
HandshakeFails(c) ==
    /\ authCalls[c].pc = "rpc"
    /\ authCalls'[c].pc = "done"
    /\ authCalls'[c].from.kind # "uid" \/ authCalls'[c].from.value = 0
WaitsForLock(c) == authCalls[c].pc = "waiting"

TokenCacheKeys == {_get_token_hash(token) : token \in Tokens}
EmployeeCacheKeys == {"u-1", "g-1", "alice@keboola.com", "bob@example.com"}
ExpiredToken(h) == h \in DOMAIN tokenCache /\ ~(now < tokenCache[h].expiry)
ExpiredEmployee(k) == k \in DOMAIN employeeCache /\ ~(now < employeeCache[k].expiry)

(* C31: an entry of the token cache or of the employee cache that has      *)
(* expired is eventually removed, whether or not its token or email is     *)
(* presented again.                                                        *)
C31_ExpiredEntriesEventuallyRemoved ==
    /\ \A h \in TokenCacheKeys : ExpiredToken(h) ~> ~ExpiredToken(h)
    /\ \A k \in EmployeeCacheKeys : ExpiredEmployee(k) ~> ~ExpiredEmployee(k)

----------------------------------------------------------------------------
(* Properties of the scope gate *)

Range(s) == {s[i] : i \in DOMAIN s}

(* C10: check_scope_access(required, granted), and the require_scopes      *)
(* dependency for a request that has a user, grant access exactly when the *)
(* required and the granted scopes share at least one scope; neither       *)
(* fails: each call ends with a boolean or a status.                       *)
C10_AccessIffSharedScope ==
    LET shared == (Range(required) \cap Range(granted)) # {}
    IN  /\ access.fn = "check_scope_access"
            => access.result \in BOOLEAN /\ access.result = shared
        /\ access.fn = "require_scopes"
            => /\ access.status \in {200, 401, 403}
               /\ access.status # 401 => (access.status = 200) = shared

(* One shared scope suffices: access granted although the first required   *)
(* scope is not among the granted ones.                                    *)
C10_Witness ==
    /\ access.fn = "check_scope_access"
    /\ access.result
    /\ Len(required) = 2 /\ Len(granted) = 2
    /\ required[1] \notin Range(granted)
    /\ granted[1] \notin Range(required)

----------------------------------------------------------------------------
(* Properties of the user context extractor *)

CtxCalled == ctxOut # <<>>
CtxUser == ctxOut[1]

(* The domain of an address: what follows its "@". *)
DomainOf(email) ==
    CASE email \in {"alice@keboola.com", "Alice@keboola.com"} -> "keboola.com"
      [] email = "bob@example.com" -> "example.com"
      [] email = "eve@notkeboola.com" -> "notkeboola.com"
      [] OTHER -> ""

FromFederated == "iss" \in DOMAIN ctxIn /\ ctxIn.iss = GOOGLE
EmailVerified == "email_verified" \in DOMAIN ctxIn /\ ctxIn.email_verified = TRUE
HasEmail == "email" \in DOMAIN ctxIn /\ ctxIn.email \notin {"", None}
EmptyScope == "scope" \notin DOMAIN ctxIn \/ ctxIn.scope = <<>>
NotBlank(w) == w # " "
ListedScopes ==
    IF "scope" \in DOMAIN ctxIn THEN SelectSeq(ctxIn.scope, NotBlank) ELSE <<>>

IdentityScopes == {"openid", "email", "profile"}
SelfServiceScopes ==
    {"odoo.hr.profile", "odoo.hr.team", "odoo.hr.directory", "odoo.leave.read",
     "odoo.leave.write", "odoo.documents.read", "odoo.read"}
WriteScopes == {"odoo.write", "odoo.documents.write"}

(* C13: for claims issued by Google with no or an empty scope string, a    *)
(* verified email and an address outside keboola.com, the extractor grants *)
(* the identity scopes and the default read/self-service scopes, and       *)
(* neither odoo.write nor odoo.documents.write.                            *)
C13_ExternalUserGetsDefaultsWithoutWrite ==
    (CtxCalled /\ FromFederated /\ EmptyScope /\ EmailVerified /\ HasEmail
        /\ DomainOf(ctxIn.email) # "keboola.com")
    => /\ IdentityScopes \cup SelfServiceScopes \subseteq Range(CtxUser.scopes)
       /\ Range(CtxUser.scopes) \cap WriteScopes = {}

C13_Witness ==
    /\ CtxCalled /\ FromFederated /\ EmptyScope /\ EmailVerified
    /\ "email" \in DOMAIN ctxIn /\ ctxIn.email = "eve@notkeboola.com"
    /\ "odoo.read" \in Range(CtxUser.scopes)

(* The principal holds the default grants of a verified federated user    *)
(* outside the internal domain.                                            *)
ExternalDefaultPrincipal ==
    /\ CtxCalled /\ FromFederated /\ EmptyScope /\ EmailVerified /\ HasEmail
    /\ DomainOf(ctxIn.email) # "keboola.com"
PassesGate(name) == check_scope_access(TOOL_SCOPE_REQUIREMENTS[name], CtxUser.scopes)

(* C36, as stated: such a principal passes the scope gate of no tool in    *)
(* WRITE_TOOLS.                                                            *)
C36_ExternalDefaultsPassNoWriteTool ==
    ExternalDefaultPrincipal => \A name \in WRITE_TOOLS : ~PassesGate(name)

(* The two leave tools of the self-service set. *)
LeaveWriteTools == {"request_leave", "cancel_leave_request"}

(* C36, amended: such a principal passes the scope gate of request_leave   *)
(* and cancel_leave_request, which the default grant odoo.leave.write      *)
(* opens, and of no other tool in WRITE_TOOLS.                             *)
C36_ExternalDefaultsPassOnlyLeaveWriteTools ==
    ExternalDefaultPrincipal =>
        \A name \in WRITE_TOOLS : PassesGate(name) <=> name \in LeaveWriteTools

C36_Witness ==
    /\ ExternalDefaultPrincipal
    /\ ctxIn.email = "bob@example.com"
    /\ PassesGate("request_leave")
    /\ ~PassesGate("delete_record")

(* C14: for claims issued by Google with no or an empty scope string, a    *)
(* verified email and an address in keboola.com, the extractor grants the  *)
(* default set and also odoo.write and odoo.documents.write.               *)
C14_InternalUserGetsWrite ==
    (CtxCalled /\ FromFederated /\ EmptyScope /\ EmailVerified /\ HasEmail
        /\ DomainOf(ctxIn.email) = "keboola.com")
    => Range(CtxUser.scopes) = IdentityScopes \cup SelfServiceScopes \cup WriteScopes

C14_Witness ==
    /\ CtxCalled /\ FromFederated /\ EmptyScope /\ EmailVerified
    /\ "email" \in DOMAIN ctxIn /\ ctxIn.email = "Alice@keboola.com"
    /\ WriteScopes \subseteq Range(CtxUser.scopes)

C16_OidcOnlyScopesStillGetDefaults ==
    (CtxCalled /\ FromFederated /\ EmailVerified /\ HasEmail
        /\ ListedScopes = <<"openid", "email", "profile">>)
    => /\ IdentityScopes \cup {"odoo.read", "odoo.hr.profile", "odoo.leave.read"}
              \subseteq Range(CtxUser.scopes)
       /\ DomainOf(ctxIn.email) = "keboola.com"
              => WriteScopes \subseteq Range(CtxUser.scopes)

(* C17: for claims from an issuer other than Google, or whose              *)
(* email_verified is false or absent, or without an email, the granted     *)
(* scopes are exactly the parsed scope string, empty when it is absent or  *)
(* empty.                                                                  *)
C17_DefaultsOnlyForVerifiedFederatedEmail ==
    (CtxCalled /\ ~(FromFederated /\ EmailVerified /\ HasEmail))
    => CtxUser.scopes = ListedScopes

C17_Witness ==
    /\ CtxCalled /\ FromFederated /\ ~EmailVerified /\ HasEmail /\ EmptyScope
    /\ CtxUser.scopes = <<>>

(* C18: the user's employee_id is the odoo_employee_id claim when the      *)
(* claims were issued by the custom authorization server, and null for     *)
(* every other issuer, also when the claim is present.                     *)
C18_EmployeeIdOnlyFromCustomIssuer ==
    CtxCalled =>
        IF "iss" \in DOMAIN ctxIn /\ ctxIn.iss = CUSTOM
        THEN CtxUser.employee_id = Get(ctxIn, "odoo_employee_id", 0)
        ELSE CtxUser.employee_id = 0

----------------------------------------------------------------------------
(* Properties of employee resolution *)

BackendEmployeeIds == {HrEmployee[i].id : i \in DOMAIN HrEmployee}

(* C19: whenever get_employee_for_user returns a record to a caller whose  *)
(* claims carry an employee id the backend holds, the record is the one    *)
(* with that id, whatever was resolved before.                             *)
C19_DirectIdStrategyFirst ==
    \A r \in Reqs :
        (call[r].kind = "record" /\ call[r].odoo_employee_id \in BackendEmployeeIds)
        => call[r].employee_info.id = call[r].odoo_employee_id

(* A call of get_employee_for_user by r starts in this step. *)
ResolutionStarts(r) ==
    /\ pc[r] \in {"idle", "handler"}
    /\ pc'[r] \in {"resolve", "returned", "erp"}
    /\ call'[r].user_email \notin {"", None}
PrincipalOf(c) == <<c.user_email, c.odoo_employee_id>>

(* C20: a resolution that starts less than 300 seconds after the same      *)
(* principal was resolved from the backend returns the record found then,  *)
(* without any ERP call; and a resolution that starts less than 300        *)
(* seconds after a principal whose email differs at most in letter case    *)
(* was resolved is answered from the cache, without any ERP call.          *)
C20_ResolutionIdempotentWithinTtl ==
    [][\A r \in Reqs :
          ResolutionStarts(r) =>
              /\ \A q \in DOMAIN resolved :
                     (Lower(q[1]) = Lower(call'[r].user_email)
                        /\ now < resolved[q].at + 300)
                     => (call'[r].hit /\ call'[r].kind = "record"
                           /\ ~(\E i \in DOMAIN call'[r].erp : call'[r].erp[i] # "execute"))
              /\ (PrincipalOf(call'[r]) \in DOMAIN resolved
                     /\ now < resolved[PrincipalOf(call'[r])].at + 300)
                 => call'[r].employee_info = resolved[PrincipalOf(call'[r])].employee_info
      ]_vars

(* The call of get_employee_for_user by r has raised EmployeeNotFoundError. *)
NotFoundRaised(r) == pc[r] = "returned" /\ call[r].kind = "error"

(* The message of the error raised to r names the email attempted, when    *)
(* the claims gave one, and no record is returned.                         *)
NamesEmailAttempted(r) ==
    /\ call[r].employee_info = NoEmployee
    /\ call[r].user_email \notin {"", None}
         => \E i \in DOMAIN call[r].exc : call[r].exc[i] = call[r].user_email

(* C21 as stated: a call in which every strategy yields no record raises   *)
(* EmployeeNotFoundError naming the email attempted, returns no record,    *)
(* and leaves the employee cache as it was when the call began.            *)
C21_FailedResolutionLeavesCacheUnchanged ==
    NotFoundRaised(1) => (NamesEmailAttempted(1) /\ employeeCache = call[1].before)

(* C21, amended: such a call raises EmployeeNotFoundError naming the email *)
(* attempted, returns no record, and adds or replaces no entry of the      *)
(* employee cache; the one change it can make is to delete the entry of    *)
(* its own email, and only one that has expired.                           *)
C21_FailedResolutionNeverCached ==
    NotFoundRaised(1) =>
        /\ NamesEmailAttempted(1)
        /\ \A k \in DOMAIN employeeCache :
               k \in DOMAIN call[1].before /\ employeeCache[k] = call[1].before[k]
        /\ \A k \in DOMAIN call[1].before \ DOMAIN employeeCache :
               /\ k = Lower(call[1].user_email)
               /\ now >= call[1].before[k].expiry

(* A failed resolution whose email was attempted through every strategy,   *)
(* the name search included, with another principal's record in the cache. *)
C21_Witness ==
    /\ NotFoundRaised(1)
    /\ call[1].user_email = "no_body@example.com"
    /\ call[1].erp = <<"search_id", "search_email", "search_login", "search_name">>
    /\ DOMAIN employeeCache # {}

(* The call of get_employee_for_user by r has ended after a cache miss. *)
StrategiesEnded(r) == pc[r] = "returned" /\ call[r].kind # "none" /\ ~call[r].hit
Issued(r, erp_call) == \E i \in DOMAIN call[r].erp : call[r].erp[i] = erp_call

(* C38: when the gathered lookups have run, the work-email search did not  *)
(* fail and has a match, get_employee_for_user returns that match, also    *)
(* when the login-account search raised a backend error.                   *)
C38_EmailMatchSurvivesLoginError ==
    \A r \in Reqs :
        (/\ StrategiesEnded(r)
         /\ Issued(r, "search_email")
         /\ call[r].exc # <<"OdooError raised by ", "search_email">>
         /\ SearchEmployeeByWorkEmail(call[r].user_email) # <<>>)
        => /\ call[r].kind = "record"
           /\ call[r].employee_info
                  = _normalize_employee(SearchEmployeeByWorkEmail(call[r].user_email)[1])

(* C22: the name search is issued only for an email whose derived name is  *)
(* longer than 3 characters; a call whose email and login lookups match    *)
(* nothing and whose derived name has 3 characters or fewer raises         *)
(* EmployeeNotFoundError without the name search.                          *)
C22_FuzzySearchOnlyForLongNames ==
    StrategiesEnded(1) =>
        /\ Issued(1, "search_name") => StrLen(EmailName(call[1].user_email)) > 3
        /\ (/\ Issued(1, "search_login")
            /\ ~Issued(1, "read_employee")
            /\ SearchEmployeeByWorkEmail(call[1].user_email) = <<>>
            /\ StrLen(EmailName(call[1].user_email)) <= 3)
           => (NotFoundRaised(1) /\ ~Issued(1, "search_name"))

(* The principal "u-1", whose derived name has 3 characters, matched no    *)
(* email and no login: the call raised after those two lookups.            *)
C22_Witness ==
    /\ NotFoundRaised(1)
    /\ call[1].user_email = "u-1"
    /\ call[1].erp = <<"search_email", "search_login">>

DiscoveryPath == "/.well-known/oauth-protected-resource"
ListFields == {"scopes_supported", "bearer_methods_supported",
               "resource_signing_alg_values_supported"}

(* C28: a request to the discovery path is answered 200 whatever its       *)
(* Authorization header, absent included; its body has resource, a         *)
(* non-empty authorization_servers, bearer_methods_supported ["header"]    *)
(* and resource_signing_alg_values_supported ["RS256", "ES256"]; and       *)
(* to_dict always gives resource and authorization_servers and leaves an   *)
(* optional field out only when it is empty.                               *)
C28_DiscoveryMetadataComplete ==
    \A r \in Reqs :
        /\ (pc[r] = "returned" /\ http[r].path = DiscoveryPath)
           => /\ resp[r] = 200
              /\ body[r] # NoBody
              /\ body[r].dict.authorization_servers # <<>>
              /\ "bearer_methods_supported" \in DOMAIN body[r].dict
              /\ body[r].dict.bearer_methods_supported = <<"header">>
              /\ "resource_signing_alg_values_supported" \in DOMAIN body[r].dict
              /\ body[r].dict.resource_signing_alg_values_supported = <<"RS256", "ES256">>
        /\ body[r] # NoBody
           => LET m == body[r].of
                  d == body[r].dict
              IN  /\ "resource" \in DOMAIN d /\ d.resource = m.resource
                  /\ "authorization_servers" \in DOMAIN d
                  /\ d.authorization_servers = m.authorization_servers
                  /\ \A k \in ListFields :
                         IF k \in DOMAIN d THEN d[k] = m[k] ELSE m[k] = <<>>
                  /\ IF "resource_documentation" \in DOMAIN d
                     THEN d.resource_documentation = m.resource_documentation
                     ELSE m.resource_documentation \in {None, ""}

(* The discovery path was requested without an Authorization header and    *)
(* answered with the metadata of a custom authorization server.            *)
C28_Witness ==
    /\ pc[1] = "returned"
    /\ http[1] = [path |-> DiscoveryPath, auth |-> ""]
    /\ resp[1] = 200
    /\ body[1].dict.authorization_servers = <<CUSTOM>>
    /\ "resource_documentation" \notin DOMAIN body[1].dict

(* The scopes of OAUTH_SCOPES that allow writing. *)
WriteClassScopes ==
    {"odoo.write", "odoo.hr.profile.write", "odoo.leave.write", "odoo.documents.write"}

(* C29: with yolo_mode "read" the user attached to a request holds no      *)
(* write scope and does not pass the scope gate of any tool in WRITE_TOOLS.*)
C29_YoloReadIsReadOnly ==
    \A r \in Reqs :
        (settings.yolo_mode = "read" /\ ~settings.oauth_dev_mode /\ user[r] # NoUser)
        => /\ Range(user[r].scopes) \cap WriteClassScopes = {}
           /\ \A name \in WRITE_TOOLS :
                  ~ScopeGate(TOOL_SCOPE_REQUIREMENTS[name], user[r].scopes)

(* C26: a request whose validation failed because the JWKS or tokeninfo    *)
(* endpoint did not answer is not reported as an authentication failure:   *)
(* the error is none of the token validation errors and the answer is not  *)
(* 401 invalid_token.                                                      *)
C26_UnreachableEndpointNotInvalidToken ==
    \A r \in Reqs :
        (pc[r] = "returned" /\ res[r].kind = "error" /\ res[r].net > 0 /\ ~res[r].up)
        => /\ res[r].exc \notin TokenValidationErrors
           /\ ~(resp[r] = 401 /\ www[r] = InvalidTokenChallenge)

----------------------------------------------------------------------------
(* Properties of the resource server's construction *)

(* C25: with a client identifier registered, the audience the validator    *)
(* expects is, at every moment, that client identifier when the            *)
(* authorization server it trusts is the federated provider, and the       *)
(* resource identifier when it is a custom one.                            *)
C25_AudienceFollowsAuthorizationServer ==
    settings.oauth_client_id # None =>
        validator.audience = IF validator.issuer = GOOGLE
                             THEN settings.oauth_client_id
                             ELSE settings.oauth_resource_identifier

----------------------------------------------------------------------------
(* Properties of the OdooClient *)

InFlight == {c \in Callers : authCalls[c].pc = "rpc"}
ReturnedUid == {c \in Callers : authCalls[c].pc = "done" /\ authCalls[c].ret # 0}

(* C24: whatever the interleaving of the callers of authenticate(), at     *)
(* most one handshake is in flight; while no handshake has failed at most  *)
(* one handshake RPC has been issued, exactly one once a caller has its    *)
(* uid; and every caller that returns gets the uid the client holds.       *)
C24_OneHandshakeForConcurrentCallers ==
    /\ Cardinality(InFlight) <= 1
    /\ odooClient.failed = 0 => odooClient.rpcs <= 1
    /\ \A c \in ReturnedUid :
           /\ authCalls[c].ret = odooClient._uid
           /\ odooClient.failed = 0 => odooClient.rpcs = 1
    /\ \A c, d \in ReturnedUid : authCalls[c].ret = authCalls[d].ret

(* All three callers have returned the uid, one handshake RPC was issued,   *)
(* and a caller got the uid without a handshake of its own.                *)
C24_Witness ==
    /\ ReturnedUid = Callers
    /\ odooClient.rpcs = 1
    /\ \E c \in Callers : authCalls[c].from = <<>>

(* The call of authenticate() by c has raised. *)
Raised(c) == authCalls[c].pc = "done" /\ authCalls[c].exc.class # ""
OnlyConnectionErrorsRetryable(c) ==
    authCalls[c].exc.is_retryable <=> authCalls[c].from.kind = "error"

----------------------------------------------------------------------------
(* Properties of the request path *)

(* The user of request r holds one of the scopes its tool requires. *)
HoldsRequiredScope(r) ==
    \E i \in DOMAIN user[r].scopes :
        user[r].scopes[i] \in Range(Get(TOOL_SCOPE_REQUIREMENTS, tool[r], <<"odoo.read">>))

(* C11: in a tools/call request an ERP call, the lookups of employee       *)
(* resolution included, is issued only once the scope check of the tool    *)
(* has passed, for a user who holds a required scope; a request whose user *)
(* holds none is answered 403 and has issued no ERP call.                  *)
C11_ScopeCheckBeforeErpCalls ==
    \A r \in Reqs :
        (user[r] # NoUser /\ tool[r] # "")
        => /\ call[r].erp # <<>> => (call[r].gate = "passed" /\ HoldsRequiredScope(r))
           /\ ~HoldsRequiredScope(r)
                 => (call[r].erp = <<>> /\ pc[r] = "returned" /\ resp[r] = 403)

C11_Witness ==
    \E r \in Reqs :
        /\ user[r] # NoUser /\ tool[r] = "get_my_profile"
        /\ call[r].gate = "passed"
        /\ call[r].erp = <<"search_email", "search_login", "execute">>

ExemptPaths == {"/health", "/.well-known/oauth-protected-resource", "/callback", "/"}
Protected(r) == http[r].path # "" /\ http[r].path \notin ExemptPaths
HandlerRan(r) ==
    \/ pc[r] \in {"handler", "resolve", "erp"}
    \/ pc[r] = "returned" /\ resp[r] \in {200, 400, 403}
TokenAccepted(r) ==
    /\ http[r].auth = "Bearer"
    /\ res[r].kind = "claims"
    /\ res[r].api = "validate_async"

(* What C12 says of the two 401 answers: a request on a protected path     *)
(* without a Bearer Authorization header is answered 401 with              *)
(* WWW-Authenticate: Bearer realm="odoo-mcp", and one whose token fails    *)
(* validation 401 with the same header plus error="invalid_token"; neither *)
(* reaches the route handler.                                              *)
Rejections(r) ==
    /\ (http[r].auth # "Bearer" /\ pc[r] = "returned")
          => (resp[r] = 401 /\ www[r] = "Bearer realm=\"odoo-mcp\"")
    /\ res[r].kind = "error"
          => (resp[r] = 401
                /\ www[r] = "Bearer realm=\"odoo-mcp\", error=\"invalid_token\"")

(* C12 as stated: on a protected path the route handler runs only after a  *)
(* Bearer token was extracted and the validator accepted it, and the two   *)
(* rejections are answered as described.                                   *)
C12_HandlerOnlyAfterAcceptedToken ==
    \A r \in Reqs :
        Protected(r) => ((HandlerRan(r) => TokenAccepted(r)) /\ Rejections(r))

(* C12: on a protected path the route handler runs only after a Bearer     *)
(* token was extracted, and, unless oauth_dev_mode or yolo_mode is set,    *)
(* only after the validator accepted it; the two rejections are answered   *)
(* as described.                                                           *)
C12_HandlerOnlyAfterBearerToken ==
    \A r \in Reqs :
        Protected(r)
        => /\ HandlerRan(r) => http[r].auth = "Bearer"
           /\ (HandlerRan(r) /\ ~settings.oauth_dev_mode /\ settings.yolo_mode = None)
                 => TokenAccepted(r)
           /\ Rejections(r)

C12_Witness ==
    \E r \in Reqs :
        /\ Protected(r) /\ http[r].auth = "Bearer"
        /\ res[r].kind = "error" /\ res[r].exc = "InvalidAudienceError"
        /\ resp[r] = 401
        /\ www[r] = "Bearer realm=\"odoo-mcp\", error=\"invalid_token\""

====
